---- MODULE Spec2Model ----
(***************************************************************************)
(* Scoring and gap-analysis engine of the AI governance assessment         *)
(* backend (backend/scoring.py, backend/analysis.py, backend/models.py).   *)
(*                                                                         *)
(* Numbers.  Every score the engine produces is a float rounded to two     *)
(* decimals, so scores are modelled as integers counting hundredths        *)
(* (2.33 is 233).  Criterion scores are the integers 1..5 of the pydantic  *)
(* field.  Weights are counted in sixths (the default weight 1/6 is 1).    *)
(* Python's None in an Optional numeric field is the value None below,     *)
(* which lies outside every numeric range of the model.                    *)
(***************************************************************************)
EXTENDS Integers, Sequences, FiniteSets, TLC

VARIABLES
    dimensions,      \* the list of DimensionResult objects handed to the engine
    weights,         \* Optional[dict[str, float]] of calculate_overall_score
    risk_category,   \* Optional[str] of analyze_gaps
    threshold_arg,   \* the threshold the caller passes to analyze_gaps
    threshold,       \* analyze_gaps' parameter variable, rebound on line 86
    overall_score,   \* result of calculate_overall_score
    maturity_label,  \* result of get_maturity_label
    gaps,            \* result of analyze_gaps
    pc,              \* position of the caller
    recommendations, \* the module-level dict RECOMMENDATIONS of analysis.py
    risk_thresholds, \* the module-level dict RISK_THRESHOLDS of analysis.py
    requests,        \* the /api/assess requests in progress
    loop_index,      \* analyze_gaps: passes made by the loop in progress
    gap_ids,         \* analyze_gaps: which GapItem object is at each place of gaps
    text,            \* sanitize_input: the argument
    sanitized,       \* sanitize_input: the pair it returns
    endpoint,        \* the streaming endpoint that serves the request
    body,            \* the request body
    rag_queries,     \* the queries given to the RAG engine, in order
    llm_calls,       \* the arguments of the calls of the provider's stream function
    events,          \* the SSE events sent so far
    provider         \* what the LLM provider will do, and has left to deliver

vars == <<dimensions, weights, risk_category, threshold_arg, threshold,
          overall_score, maturity_label, gaps, pc,
          recommendations, risk_thresholds, requests, loop_index, gap_ids,
          text, sanitized, endpoint, body, rag_queries, llm_calls, events,
          provider>>

\* the variables of the scoring and gap engine, but for pc
EngineVarsButPc ==
    <<dimensions, weights, risk_category, threshold_arg, threshold,
      overall_score, maturity_label, gaps, recommendations, risk_thresholds,
      requests, loop_index, gap_ids>>

\* the locals of code that only some of the specifications run
LocalVars ==
    <<loop_index, gap_ids, text, sanitized, endpoint, body, rag_queries,
      llm_calls, events, provider>>

\* the variables of the streaming endpoints
StreamVars == <<endpoint, body, rag_queries, llm_calls, events, provider>>

StreamIdle ==
    /\ endpoint = ""
    /\ body = << >>
    /\ rag_queries = << >>
    /\ llm_calls = << >>
    /\ events = << >>
    /\ provider = [kind |-> "", chunks |-> 0, delivered |-> 0]

LocalsIdle ==
    /\ loop_index = 0
    /\ gap_ids = << >>
    /\ text = << >>
    /\ sanitized = [text |-> << >>, warnings |-> << >>]
    /\ StreamIdle

-----------------------------------------------------------------------------
(* Bounds of the model *)

MaxCrit == 3
MaxDims == 2

-----------------------------------------------------------------------------
(* Values *)

None == -1
Absent == "<absent>"
Scale == 100

Scores == 1..5
OptScores == Scores \cup {None}

CriterionScore(k, s, na) == [criterion_id |-> k, score |-> s, is_na |-> na]

\* the display name a dimension id comes with
DimName(id) == "name of " \o id

DimensionResult(id, cs, ds, nr, nn) ==
    [dimension_id |-> id, dimension_name |-> DimName(id), criteria_scores |-> cs,
     dim_score |-> ds, num_rated |-> nr, num_na |-> nn]

-----------------------------------------------------------------------------
(* Arithmetic *)

RECURSIVE SumScores(_)
SumScores(cs) ==
    IF cs = << >> THEN 0 ELSE Head(cs).score + SumScores(Tail(cs))

\* round(num / den, 2) in hundredths, num already in hundredths and den # 0.
\* round() rounds the binary quotient correctly; when num/den is exactly
\* halfway between two hundredths the binary quotient may lie on either side,
\* so the direction is tie_up.
Round2(num, den, tie_up) ==
    LET n == IF den < 0 THEN 0 - num ELSE num
        d == IF den < 0 THEN 0 - den ELSE den
        q == n \div d
        r == n % d
    IN  IF 2 * r < d THEN q
        ELSE IF 2 * r > d THEN q + 1
        ELSE IF tie_up THEN q + 1 ELSE q

\* Outcome of a call: a returned value or a raised exception.
Return(v) == [raised |-> FALSE, value |-> v]
Raise == [raised |-> TRUE, value |-> 0]

\* Python float division raises ZeroDivisionError on a zero divisor.
Divide2(num, den, tie_up) ==
    IF den = 0 THEN Raise ELSE Return(Round2(num, den, tie_up))

\* sum / len of small integers: a halfway case needs a count divisible by 8,
\* where the quotient is exact in binary and round() rounds half to even.
HalfEven(num, den) == den # 0 /\ (num \div den) % 2 = 1

-----------------------------------------------------------------------------
(* scoring.py *)

IsRated(cs) == ~cs.is_na /\ cs.score # None
IsNa(cs) == cs.is_na

\* Variants of calculate_dim_score with one slip each.
calculate_dim_score_ignores_is_na(dimension) ==
    LET HasScore(cs) == cs.score # None
        rated == SelectSeq(dimension.criteria_scores, HasScore)
        na_count == Len(SelectSeq(dimension.criteria_scores, IsNa))
    IN  [dimension EXCEPT
            !.num_rated = Len(rated),
            !.num_na = na_count,
            !.dim_score = IF rated # << >>
                          THEN Round2(Scale * SumScores(rated), Len(rated),
                                      HalfEven(Scale * SumScores(rated), Len(rated)))
                          ELSE None]

calculate_dim_score_accumulates(dimension) ==
    LET rated == SelectSeq(dimension.criteria_scores, IsRated)
        na_count == Len(SelectSeq(dimension.criteria_scores, IsNa))
    IN  [dimension EXCEPT
            !.num_rated = dimension.num_rated + Len(rated),
            !.num_na = dimension.num_na + na_count,
            !.dim_score = IF rated # << >>
                          THEN Round2(Scale * SumScores(rated), Len(rated),
                                      HalfEven(Scale * SumScores(rated), Len(rated)))
                          ELSE None]

calculate_dim_score_counts_unscored_as_na(dimension) ==
    LET NoScore(cs) == cs.is_na \/ cs.score = None
        rated == SelectSeq(dimension.criteria_scores, IsRated)
        na_count == Len(SelectSeq(dimension.criteria_scores, NoScore))
    IN  [dimension EXCEPT
            !.num_rated = Len(rated),
            !.num_na = na_count,
            !.dim_score = IF rated # << >>
                          THEN Round2(Scale * SumScores(rated), Len(rated),
                                      HalfEven(Scale * SumScores(rated), Len(rated)))
                          ELSE None]

calculate_dim_score(dimension) ==
    LET rated == SelectSeq(dimension.criteria_scores, IsRated)
        na_count == Len(SelectSeq(dimension.criteria_scores, IsNa))
    IN  [dimension EXCEPT
            !.num_rated = Len(rated),
            !.num_na = na_count,
            !.dim_score = IF rated # << >>
                          THEN Round2(Scale * SumScores(rated), Len(rated),
                                      HalfEven(Scale * SumScores(rated), Len(rated)))
                          ELSE None]

HasDimScore(d) == d.dim_score # None

RECURSIVE SumDimScores(_)
SumDimScores(ds) ==
    IF ds = << >> THEN 0 ELSE Head(ds).dim_score + SumDimScores(Tail(ds))

\* weights.get(d.dimension_id, 1/6), in sixths
DEFAULT_WEIGHT == 1
WeightsGet(w, id) == IF id \in DOMAIN w THEN w[id] ELSE DEFAULT_WEIGHT

RECURSIVE TotalWeight(_, _)
TotalWeight(ds, w) ==
    IF ds = << >> THEN 0
    ELSE WeightsGet(w, Head(ds).dimension_id) + TotalWeight(Tail(ds), w)

RECURSIVE WeightedSum(_, _)
WeightedSum(ds, w) ==
    IF ds = << >> THEN 0
    ELSE WeightsGet(w, Head(ds).dimension_id) * Head(ds).dim_score
            + WeightedSum(Tail(ds), w)

NoWeights == [k \in {Absent} |-> 0]

\* Variants of calculate_overall_score with one slip each.
calculate_overall_score_over_all_dims(dims, w, tie_up) ==
    LET scored_dims == SelectSeq(dims, HasDimScore)
    IN  IF scored_dims = << >> THEN Return(0)
        ELSE IF w = NoWeights
        THEN Divide2(SumDimScores(scored_dims), Len(dims), tie_up)
        ELSE IF TotalWeight(scored_dims, w) = 0 THEN Return(0)
        ELSE Divide2(WeightedSum(scored_dims, w), TotalWeight(scored_dims, w), tie_up)

calculate_overall_score_unnormalised(dims, w, tie_up) ==
    LET scored_dims == SelectSeq(dims, HasDimScore)
    IN  IF scored_dims = << >> THEN Return(0)
        ELSE IF w = NoWeights
        THEN Divide2(SumDimScores(scored_dims), Len(scored_dims), tie_up)
        ELSE IF TotalWeight(scored_dims, w) = 0 THEN Return(0)
        ELSE Divide2(WeightedSum(scored_dims, w), 6, tie_up)

calculate_overall_score_unguarded(dims, w, tie_up) ==
    LET scored_dims == SelectSeq(dims, HasDimScore)
    IN  IF scored_dims = << >> THEN Return(0)
        ELSE IF w = NoWeights
        THEN Divide2(SumDimScores(scored_dims), Len(scored_dims), tie_up)
        ELSE Divide2(WeightedSum(scored_dims, w), TotalWeight(scored_dims, w), tie_up)

calculate_overall_score(dims, w, tie_up) ==
    LET scored_dims == SelectSeq(dims, HasDimScore)
    IN  IF scored_dims = << >> THEN Return(0)
        ELSE IF w = NoWeights
        THEN Divide2(SumDimScores(scored_dims), Len(scored_dims), tie_up)
        ELSE IF TotalWeight(scored_dims, w) = 0 THEN Return(0)
        ELSE Divide2(WeightedSum(scored_dims, w), TotalWeight(scored_dims, w), tie_up)

\* MATURITY_LEVELS, thresholds in hundredths
MATURITY_LEVELS ==
    <<<<450, "Optimizing">>, <<350, "Measured">>, <<250, "Defined">>,
      <<150, "Managed">>, <<0, "Initial">>>>

\* next((label for threshold, label in levels if score >= threshold), "Initial")
RECURSIVE FirstLabel(_, _)
FirstLabel(levels, score) ==
    IF levels = << >> THEN "Initial"
    ELSE IF score >= Head(levels)[1] THEN Head(levels)[2]
    ELSE FirstLabel(Tail(levels), score)

RECURSIVE FirstLabelStrict(_, _)
FirstLabelStrict(levels, score) ==
    IF levels = << >> THEN "Initial"
    ELSE IF score > Head(levels)[1] THEN Head(levels)[2]
    ELSE FirstLabelStrict(Tail(levels), score)

\* Variant of get_maturity_label with exclusive lower bounds.
get_maturity_label_exclusive(score) == FirstLabelStrict(MATURITY_LEVELS, score)

get_maturity_label(score) == FirstLabel(MATURITY_LEVELS, score)

-----------------------------------------------------------------------------
(* analysis.py *)

Severities == {"critical", "significant", "moderate"}

\* Variant of RECOMMENDATIONS where D3 has no entry for critical.
RECOMMENDATIONS_incomplete ==
    [id \in {"D1", "D2", "D3", "D4", "D5", "D6"} |->
        [sev \in IF id = "D3" THEN {"significant", "moderate"} ELSE Severities |->
            id \o ":" \o sev]]

\* The advisory text of RECOMMENDATIONS[id][severity]; the six dimensions each
\* have the three entries, all different non-empty texts.
RECOMMENDATIONS ==
    [id \in {"D1", "D2", "D3", "D4", "D5", "D6"} |->
        [sev \in Severities |-> id \o ":" \o sev]]

\* Variant of RISK_THRESHOLDS with the high-risk and minimal-risk values swapped.
RISK_THRESHOLDS_swapped ==
    [rc \in {"high-risk", "limited-risk", "minimal-risk"} |->
        CASE rc = "high-risk" -> 200
          [] rc = "limited-risk" -> 250
          [] rc = "minimal-risk" -> 300]

RISK_THRESHOLDS ==
    [rc \in {"high-risk", "limited-risk", "minimal-risk"} |->
        CASE rc = "high-risk" -> 300
          [] rc = "limited-risk" -> 250
          [] rc = "minimal-risk" -> 200]

\* Python truthiness of an Optional[str]
Truthy(str) == str # Absent /\ str # ""

\* Variants of the threshold resolution with one slip each.
ResolveThreshold_unchecked(thr, rc) ==
    IF Truthy(rc)
    THEN IF rc \in DOMAIN risk_thresholds THEN Return(risk_thresholds[rc]) ELSE Raise
    ELSE Return(thr)

\* analysis.py:85-86
ResolveThreshold(thr, rc) ==
    IF Truthy(rc) /\ rc \in DOMAIN risk_thresholds
    THEN Return(risk_thresholds[rc])
    ELSE Return(thr)

\* Variant of Severity with exclusive boundaries.
Severity_exclusive(gap_value) ==
    IF gap_value > 200 THEN "critical"
    ELSE IF gap_value > 100 THEN "significant"
    ELSE "moderate"

\* analysis.py:93-98
Severity(gap_value) ==
    IF gap_value >= 200 THEN "critical"
    ELSE IF gap_value >= 100 THEN "significant"
    ELSE "moderate"

\* dict.get(key, default)
DictGet(dict, key, default) == IF key \in DOMAIN dict THEN dict[key] ELSE default

\* Variant of Recommendation that always takes the moderate entry.
Recommendation_always_moderate(id, severity) ==
    LET dim_recs == DictGet(recommendations, id, << >>)
    IN  DictGet(dim_recs, "moderate", "")

\* analysis.py:101-102
Recommendation(id, severity) ==
    LET dim_recs == DictGet(recommendations, id, << >>)
    IN  DictGet(dim_recs, severity, DictGet(dim_recs, "moderate", ""))

GapItem(dim, severity, rank, recommendation) ==
    [dimension_id |-> dim.dimension_id, dimension_name |-> dim.dimension_name,
     dim_score |-> dim.dim_score, gap_severity |-> severity,
     priority_rank |-> rank, recommendation |-> recommendation]

\* Variant of CollectGaps that also takes a score equal to the threshold.
RECURSIVE CollectGaps_inclusive(_, _)
CollectGaps_inclusive(dims, thr) ==
    IF dims = << >> THEN << >>
    ELSE LET dim == Head(dims)
             severity == Severity(thr - dim.dim_score)
         IN  IF dim.dim_score # None /\ dim.dim_score <= thr
             THEN <<GapItem(dim, severity, 0,
                            Recommendation(dim.dimension_id, severity))>>
                      \o CollectGaps_inclusive(Tail(dims), thr)
             ELSE CollectGaps_inclusive(Tail(dims), thr)

\* analysis.py:88-111, the list before sorting
RECURSIVE CollectGaps(_, _)
CollectGaps(dims, thr) ==
    IF dims = << >> THEN << >>
    ELSE LET dim == Head(dims)
             severity == Severity(thr - dim.dim_score)
         IN  IF dim.dim_score # None /\ dim.dim_score < thr
             THEN <<GapItem(dim, severity, 0,
                            Recommendation(dim.dimension_id, severity))>>
                      \o CollectGaps(Tail(dims), thr)
             ELSE CollectGaps(Tail(dims), thr)

\* Variant of InsertByScore that puts an item before the items of equal key.
RECURSIVE InsertByScore_before_equal(_, _)
InsertByScore_before_equal(sorted, g) ==
    IF sorted = << >> THEN <<g>>
    ELSE IF g.dim_score <= Head(sorted).dim_score THEN <<g>> \o sorted
    ELSE <<Head(sorted)>> \o InsertByScore_before_equal(Tail(sorted), g)

\* list.sort(key=dim_score) is stable: an item goes behind every item whose
\* key is less than or equal to its own.
RECURSIVE InsertByScore(_, _)
InsertByScore(sorted, g) ==
    IF sorted = << >> THEN <<g>>
    ELSE IF g.dim_score < Head(sorted).dim_score THEN <<g>> \o sorted
    ELSE <<Head(sorted)>> \o InsertByScore(Tail(sorted), g)

RECURSIVE SortByScore(_)
SortByScore(gs) ==
    IF gs = << >> THEN << >>
    ELSE InsertByScore(SortByScore(SubSeq(gs, 1, Len(gs) - 1)), gs[Len(gs)])

\* analysis.py:115-116
AssignRanks(gs) == [i \in 1..Len(gs) |-> [gs[i] EXCEPT !.priority_rank = i]]

\* Variant of analyze_gaps that ranks the gaps without sorting them.
analyze_gaps_unsorted(dims, thr) == AssignRanks(CollectGaps(dims, thr))

\* analysis.py:67-118, after the threshold is resolved to thr
analyze_gaps(dims, thr) == AssignRanks(SortByScore(CollectGaps(dims, thr)))

-----------------------------------------------------------------------------
(* Inputs of calculate_dim_score *)

DEFAULT_THRESHOLD == 300

\* a list of criteria from its (score, is_na) pairs
CriteriaList(f) == [k \in DOMAIN f |-> CriterionScore(k, f[k][1], f[k][2])]

\* spec.md section 8, concrete scenarios 1 and 2
Scenario1 == [k \in 1..6 |-> CriterionScore(k, 5, FALSE)]
Scenario2 ==
    <<CriterionScore(1, 1, FALSE), CriterionScore(2, None, TRUE),
      CriterionScore(3, 2, FALSE), CriterionScore(4, None, FALSE),
      CriterionScore(5, 3, FALSE)>>

\* Derived fields as the caller may leave them: the model defaults, or values
\* of an earlier pass over other criteria.
StaleFields ==
    {[dim_score |-> None, num_rated |-> 0, num_na |-> 0],
     [dim_score |-> 420, num_rated |-> 9, num_na |-> 9]}

Derived(d) ==
    [dim_score |-> d.dim_score, num_rated |-> d.num_rated, num_na |-> d.num_na]

-----------------------------------------------------------------------------
(* calculate_dim_score applied, and re-applied, to one dimension object *)

InitDim ==
    /\ \E st \in StaleFields :
          \/ \E n \in 0..MaxCrit : \E f \in [1..n -> OptScores \X BOOLEAN] :
                dimensions = <<DimensionResult("D2", CriteriaList(f),
                                               st.dim_score, st.num_rated, st.num_na)>>
          \/ \E cs \in {Scenario1, Scenario2} :
                dimensions = <<DimensionResult("D2", cs,
                                               st.dim_score, st.num_rated, st.num_na)>>
    /\ weights = NoWeights
    /\ risk_category = Absent
    /\ threshold_arg = DEFAULT_THRESHOLD
    /\ threshold = DEFAULT_THRESHOLD
    /\ overall_score = None
    /\ maturity_label = ""
    /\ gaps = << >>
    /\ pc = "unscored"
    /\ recommendations = RECOMMENDATIONS
    /\ risk_thresholds = RISK_THRESHOLDS
    /\ requests = << >>
    /\ LocalsIdle

\* scoring.py:11-25, the object is mutated in place
ScoreDimension ==
    /\ pc \in {"unscored", "scored", "rescored", "na_edited", "scored_after_edit"}
    /\ dimensions' = <<calculate_dim_score(dimensions[1])>>
    /\ pc' = CASE pc = "unscored" -> "scored"
               [] pc = "na_edited" -> "scored_after_edit"
               [] OTHER -> "rescored"
    /\ UNCHANGED <<recommendations, risk_thresholds, requests>>
    /\ UNCHANGED LocalVars
    /\ UNCHANGED <<weights, risk_category, threshold_arg, threshold,
                   overall_score, maturity_label, gaps>>

\* The caller changes the score of a criterion marked not applicable.
EditNaScore ==
    /\ pc \in {"scored", "rescored", "na_edited", "scored_after_edit"}
    /\ \E k \in 1..Len(dimensions[1].criteria_scores), v \in OptScores :
          /\ dimensions[1].criteria_scores[k].is_na
          /\ dimensions[1].criteria_scores[k].score # v
          /\ dimensions' = [dimensions EXCEPT ![1].criteria_scores[k].score = v]
    /\ pc' = "na_edited"
    /\ UNCHANGED <<recommendations, risk_thresholds, requests>>
    /\ UNCHANGED LocalVars
    /\ UNCHANGED <<weights, risk_category, threshold_arg, threshold,
                   overall_score, maturity_label, gaps>>

NextDim == ScoreDimension \/ EditNaScore

SpecDim == InitDim /\ [][NextDim]_vars

-----------------------------------------------------------------------------
(* Properties of calculate_dim_score *)

RECURSIVE SumOver(_, _)
SumOver(f, S) ==
    IF S = {} THEN 0
    ELSE LET k == CHOOSE x \in S : TRUE IN f[k] + SumOver(f, S \ {k})

Abs(x) == IF x < 0 THEN 0 - x ELSE x

\* r is num/den rounded to the nearest integer (den # 0)
IsRounded2(r, num, den) == 2 * Abs(num - r * den) <= Abs(den)

DimScored == pc \in {"scored", "rescored", "scored_after_edit"}

RatedSet(d) ==
    {k \in DOMAIN d.criteria_scores :
        d.criteria_scores[k].is_na = FALSE /\ d.criteria_scores[k].score \in Scores}

NaSet(d) == {k \in DOMAIN d.criteria_scores : d.criteria_scores[k].is_na = TRUE}

ScoreOf(d) == [k \in DOMAIN d.criteria_scores |-> d.criteria_scores[k].score]

\* C1: after calculate_dim_score, dim_score is (sum of scores / count) rounded
\* to 2 decimals over exactly the criteria with is_na = false and a present
\* score, and None when no criterion qualifies; a criterion with score None and
\* is_na false adds to neither the sum nor the count.
C1_DimScoreIsMeanOfRated ==
    DimScored =>
        LET d == dimensions[1]
        IN  IF RatedSet(d) = {}
            THEN d.dim_score = None
            ELSE /\ d.dim_score # None
                 /\ IsRounded2(d.dim_score, Scale * SumOver(ScoreOf(d), RatedSet(d)),
                               Cardinality(RatedSet(d)))

C1_Witness ==
    /\ pc = "scored"
    /\ dimensions[1].dim_score = 150
    /\ \E k \in DOMAIN dimensions[1].criteria_scores :
          /\ dimensions[1].criteria_scores[k].score = None
          /\ ~dimensions[1].criteria_scores[k].is_na

\* C2: after calculate_dim_score, num_rated is the number of criteria with
\* is_na = false and a present score, num_na is the number of criteria with
\* is_na = true, and the three derived fields depend on criteria_scores alone:
\* whatever the caller had put in them, the call leaves the same values.
C2_CountsOverwritten ==
    DimScored =>
        LET d == dimensions[1]
        IN  /\ d.num_rated = Cardinality(RatedSet(d))
            /\ d.num_na = Cardinality(NaSet(d))
            /\ \A st \in StaleFields :
                  Derived(calculate_dim_score(
                      [d EXCEPT !.dim_score = st.dim_score,
                                !.num_rated = st.num_rated,
                                !.num_na = st.num_na])) = Derived(d)

C2_Witness ==
    /\ pc = "scored"
    /\ dimensions[1].num_rated = 2
    /\ dimensions[1].num_na = 1
    /\ Len(dimensions[1].criteria_scores) = 3
    /\ dimensions[1].dim_score # 420

\* C3: calculate_dim_score is idempotent: a second application to the same
\* dimension, criteria_scores unchanged in between, leaves dim_score, num_rated
\* and num_na as the first application set them.
C3_Idempotent ==
    [][(DimScored /\ pc' = "rescored")
          => Derived(dimensions'[1]) = Derived(dimensions[1])]_vars

C3_Witness ==
    /\ pc = "rescored"
    /\ dimensions[1].dim_score = 150
    /\ dimensions[1].num_na = 1

\* C4: N/A exclusion: changing the score (1..5 or absent) of criteria whose
\* is_na is true changes none of dim_score, num_rated and num_na.
C4_NaScoreIrrelevant ==
    [][(pc = "na_edited" /\ pc' = "scored_after_edit")
          => Derived(dimensions'[1]) = Derived(dimensions[1])]_vars

C4_Witness ==
    /\ pc = "scored_after_edit"
    /\ dimensions[1].dim_score = 200
    /\ \E k \in DOMAIN dimensions[1].criteria_scores :
          /\ dimensions[1].criteria_scores[k].is_na
          /\ dimensions[1].criteria_scores[k].score = 5

-----------------------------------------------------------------------------
(* calculate_overall_score applied to a list of dimensions *)

DimIds == {"D1", "D2", "D7"}
DimScoreInputs == {None, 100, 115, 300, 500}

\* weights in sixths: -1.0, 0.0, 0.5 and 1.0, all exact in binary
WeightKeys == {"D1", "D2"}
WeightValues == {-6, 0, 3, 6}

\* a list of dimensions from its (dimension_id, dim_score) pairs
DimensionList(f) ==
    [k \in DOMAIN f |-> DimensionResult(f[k][1], << >>, f[k][2], 0, 0)]

\* the canonical dimension ids, in order
CanonicalIds == <<"D1", "D2", "D3", "D4", "D5", "D6">>

\* spec.md section 8, concrete scenario 3: six dimensions all scoring 3.0
Scenario3 == [k \in 1..6 |-> DimensionResult(CanonicalIds[k], << >>, 300, 0, 0)]

InitOverall ==
    /\ \/ \E n \in 0..MaxDims : \E f \in [1..n -> DimIds \X DimScoreInputs] :
             dimensions = DimensionList(f)
       \/ dimensions = Scenario3
    /\ \/ weights = NoWeights
       \/ \E K \in SUBSET WeightKeys : \E w \in [K -> WeightValues] : weights = w
    /\ risk_category = Absent
    /\ threshold_arg = DEFAULT_THRESHOLD
    /\ threshold = DEFAULT_THRESHOLD
    /\ overall_score = None
    /\ maturity_label = ""
    /\ gaps = << >>
    /\ pc = "dims_ready"
    /\ recommendations = RECOMMENDATIONS
    /\ risk_thresholds = RISK_THRESHOLDS
    /\ requests = << >>
    /\ LocalsIdle

\* scoring.py:28-54
OverallScore ==
    /\ pc = "dims_ready"
    /\ \E tie_up \in BOOLEAN :
          LET r == calculate_overall_score(dimensions, weights, tie_up)
          IN  IF r.raised
              THEN pc' = "overall_raised" /\ overall_score' = overall_score
              ELSE pc' = "overall_done" /\ overall_score' = r.value
    /\ UNCHANGED <<recommendations, risk_thresholds, requests>>
    /\ UNCHANGED LocalVars
    /\ UNCHANGED <<dimensions, weights, risk_category, threshold_arg, threshold,
                   maturity_label, gaps>>

NextOverall == OverallScore

SpecOverall == InitOverall /\ [][NextOverall]_vars

-----------------------------------------------------------------------------
(* Properties of calculate_overall_score *)

ScoredSet == {k \in DOMAIN dimensions : dimensions[k].dim_score # None}

DimScoreOf == [k \in DOMAIN dimensions |-> dimensions[k].dim_score]

\* the weight of dimension k in sixths: the map's entry, or 1/6
WeightOf ==
    [k \in DOMAIN dimensions |->
        IF dimensions[k].dimension_id \in DOMAIN weights
        THEN weights[dimensions[k].dimension_id] ELSE 1]

WeightedOf == [k \in DOMAIN dimensions |-> WeightOf[k] * DimScoreOf[k]]

Unscored(id) == DimensionResult(id, << >>, None, 0, 0)

OverallResults(dims, w) ==
    {calculate_overall_score(dims, w, t) : t \in BOOLEAN}

\* C6: without weights and with at least one scored dimension, the overall
\* score is the mean of dim_score over the dimensions with a non-null dim_score
\* only (the divisor is their number), rounded to 2 decimals; dimensions with
\* dim_score None, added or removed, do not change it.
C6_EqualWeightMean ==
    (pc = "overall_done" /\ weights = NoWeights /\ ScoredSet # {}) =>
        /\ IsRounded2(overall_score, SumOver(DimScoreOf, ScoredSet),
                      Cardinality(ScoredSet))
        /\ Return(overall_score)
              \in OverallResults(SelectSeq(dimensions, HasDimScore), NoWeights)
        /\ \A id \in DimIds :
              /\ Return(overall_score)
                    \in OverallResults(<<Unscored(id)>> \o dimensions, NoWeights)
              /\ Return(overall_score)
                    \in OverallResults(dimensions \o <<Unscored(id)>>, NoWeights)

C6_Witness ==
    /\ pc = "overall_done"
    /\ weights = NoWeights
    /\ Len(dimensions) = 2
    /\ dimensions[1].dim_score = None
    /\ dimensions[2].dim_score = 115
    /\ overall_score = 115

\* C7: with weights and a non-zero total weight, the overall score is
\* sum(w_d * dim_score_d) / sum(w_d) over the scored dimensions rounded to 2
\* decimals, w_d being the map's entry for the dimension id and 1/6 when the id
\* is not a key; the weights need not sum to 1.
C7_WeightedMean ==
    (/\ pc \in {"overall_done", "overall_raised"}
     /\ weights # NoWeights
     /\ ScoredSet # {}
     /\ SumOver(WeightOf, ScoredSet) # 0) =>
        /\ pc = "overall_done"
        /\ IsRounded2(overall_score, SumOver(WeightedOf, ScoredSet),
                      SumOver(WeightOf, ScoredSet))

C7_Witness ==
    /\ pc = "overall_done"
    /\ weights = [k \in {"D1"} |-> 3]
    /\ Len(dimensions) = 2
    /\ dimensions[1].dimension_id = "D1" /\ dimensions[1].dim_score = 100
    /\ dimensions[2].dimension_id = "D7" /\ dimensions[2].dim_score = 500
    /\ overall_score = 200

\* C8: calculate_overall_score returns exactly 0.0 and raises nothing (a) when
\* no supplied dimension has a non-null dim_score, the empty list included,
\* with or without weights, and (b) when weights is present and the total
\* weight of the scored dimensions is 0, as when all their weights are 0.0.
C8_ZeroDivisionSafe ==
    /\ pc # "overall_raised"
    /\ (pc = "overall_done" /\ ScoredSet = {}) => overall_score = 0
    /\ (/\ pc = "overall_done"
        /\ weights # NoWeights
        /\ SumOver(WeightOf, ScoredSet) = 0) => overall_score = 0

C8_Witness ==
    /\ pc = "overall_done"
    /\ weights = [k \in {"D1", "D2"} |-> 0]
    /\ Len(dimensions) = 2
    /\ dimensions[1].dimension_id = "D1" /\ dimensions[1].dim_score = 300
    /\ dimensions[2].dimension_id = "D2" /\ dimensions[2].dim_score = 500
    /\ overall_score = 0

-----------------------------------------------------------------------------
(* get_maturity_label applied to a score *)

MaxLabelScore == 600
LabelScoreInputs == (0 - 100)..MaxLabelScore

InitLabel ==
    /\ dimensions = << >>
    /\ weights = NoWeights
    /\ risk_category = Absent
    /\ threshold_arg = DEFAULT_THRESHOLD
    /\ threshold = DEFAULT_THRESHOLD
    /\ overall_score \in LabelScoreInputs
    /\ maturity_label = ""
    /\ gaps = << >>
    /\ pc = "score_ready"
    /\ recommendations = RECOMMENDATIONS
    /\ risk_thresholds = RISK_THRESHOLDS
    /\ requests = << >>
    /\ LocalsIdle

\* scoring.py:67-72
MaturityLabel ==
    /\ pc = "score_ready"
    /\ maturity_label' = get_maturity_label(overall_score)
    /\ pc' = "label_done"
    /\ UNCHANGED <<recommendations, risk_thresholds, requests>>
    /\ UNCHANGED LocalVars
    /\ UNCHANGED <<dimensions, weights, risk_category, threshold_arg, threshold,
                   overall_score, gaps>>

NextLabel == MaturityLabel

SpecLabel == InitLabel /\ [][NextLabel]_vars

\* C9: get_maturity_label maps every score to exactly one label by the
\* descending ladder with inclusive lower bounds: >= 4.5 Optimizing, 3.5 up to
\* 4.5 Measured, 2.5 up to 3.5 Defined, 1.5 up to 2.5 Managed, and every other
\* score, negative ones included, Initial.
C9_MaturityLadder ==
    pc = "label_done" =>
        /\ maturity_label \in {"Optimizing", "Measured", "Defined", "Managed", "Initial"}
        /\ maturity_label = "Optimizing" <=> overall_score >= 450
        /\ maturity_label = "Measured" <=> (350 <= overall_score /\ overall_score < 450)
        /\ maturity_label = "Defined" <=> (250 <= overall_score /\ overall_score < 350)
        /\ maturity_label = "Managed" <=> (150 <= overall_score /\ overall_score < 250)
        /\ maturity_label = "Initial" <=> overall_score < 150

C9_Witness ==
    /\ pc = "label_done"
    /\ overall_score = 350
    /\ maturity_label = "Measured"

-----------------------------------------------------------------------------
(* analyze_gaps applied to a list of scored dimensions *)

\* two dimensions of the catalog and one it does not know
GapDimIds == {"D1", "D3", "D7"}
GapScoreInputs == {None, 50, 100, 150, 200, 220, 300}
\* thresholds exact in binary, like those of RISK_THRESHOLDS and the default:
\* threshold - dim_score is then exact at the severity boundaries
ThresholdInputs == {200, 300, 350}
RiskCategoryInputs ==
    {Absent, "", "high-risk", "limited-risk", "minimal-risk", "HIGH-RISK",
     "unacceptable"}

InitGaps ==
    /\ \E n \in 0..MaxDims : \E f \in [1..n -> GapDimIds \X GapScoreInputs] :
          dimensions = DimensionList(f)
    /\ weights = NoWeights
    /\ risk_category \in RiskCategoryInputs
    /\ threshold_arg \in ThresholdInputs
    /\ threshold = threshold_arg
    /\ overall_score = None
    /\ maturity_label = ""
    /\ gaps = << >>
    /\ pc = "gaps_ready"
    /\ recommendations = RECOMMENDATIONS
    /\ risk_thresholds = RISK_THRESHOLDS
    /\ requests = << >>
    /\ LocalsIdle

\* Variant of AnalyzeGaps that remembers the threshold of a category the table
\* does not know.
AnalyzeGaps_caches_threshold ==
    /\ pc = "gaps_ready"
    /\ LET r == ResolveThreshold(threshold, risk_category)
       IN  /\ threshold' = r.value
           /\ gaps' = analyze_gaps(dimensions, r.value)
           /\ pc' = "gaps_done"
           /\ risk_thresholds' =
                 IF Truthy(risk_category)
                 THEN [rc \in DOMAIN risk_thresholds \cup {risk_category} |->
                          IF rc \in DOMAIN risk_thresholds
                          THEN risk_thresholds[rc] ELSE r.value]
                 ELSE risk_thresholds
    /\ UNCHANGED <<recommendations, requests>>
    /\ UNCHANGED LocalVars
    /\ UNCHANGED <<dimensions, weights, risk_category, threshold_arg,
                   overall_score, maturity_label>>

\* analysis.py:67-118
AnalyzeGaps ==
    /\ pc = "gaps_ready"
    /\ LET r == ResolveThreshold(threshold, risk_category)
       IN  IF r.raised
           THEN pc' = "gaps_raised" /\ UNCHANGED <<threshold, gaps>>
           ELSE /\ threshold' = r.value
                /\ gaps' = analyze_gaps(dimensions, r.value)
                /\ pc' = "gaps_done"
    /\ UNCHANGED <<recommendations, risk_thresholds, requests>>
    /\ UNCHANGED LocalVars
    /\ UNCHANGED <<dimensions, weights, risk_category, threshold_arg,
                   overall_score, maturity_label>>

\* The caller repeats the call with the arguments of the first one.
ReanalyzeGaps ==
    /\ pc = "gaps_done"
    /\ LET r == ResolveThreshold(threshold_arg, risk_category)
       IN  IF r.raised
           THEN pc' = "gaps_raised" /\ UNCHANGED <<threshold, gaps>>
           ELSE /\ threshold' = r.value
                /\ gaps' = analyze_gaps(dimensions, r.value)
                /\ pc' = "gaps_redone"
    /\ UNCHANGED <<recommendations, risk_thresholds, requests>>
    /\ UNCHANGED LocalVars
    /\ UNCHANGED <<dimensions, weights, risk_category, threshold_arg,
                   overall_score, maturity_label>>

NextGaps == AnalyzeGaps \/ ReanalyzeGaps

SpecGaps == InitGaps /\ [][NextGaps]_vars

\* C10: threshold resolution in analyze_gaps: for risk_category high-risk,
\* limited-risk, minimal-risk the threshold used is 3.0, 2.5, 2.0, whatever
\* threshold the caller passed; for an absent, empty or any other
\* risk_category the caller's threshold is used unchanged and nothing is raised.
C10_ThresholdResolution ==
    /\ pc # "gaps_raised"
    /\ pc = "gaps_done" =>
          threshold = CASE risk_category = "high-risk" -> 300
                        [] risk_category = "limited-risk" -> 250
                        [] risk_category = "minimal-risk" -> 200
                        [] OTHER -> threshold_arg

C10_Witness ==
    /\ pc = "gaps_done"
    /\ risk_category = "limited-risk"
    /\ threshold_arg = 350
    /\ threshold = 250
    /\ Len(gaps) = 1
    /\ gaps[1].dim_score = 220

-----------------------------------------------------------------------------
(* Properties of analyze_gaps *)

\* the input positions below the threshold in use
GapIdx ==
    {k \in DOMAIN dimensions :
        dimensions[k].dim_score # None /\ dimensions[k].dim_score < threshold}

Key(x) == <<x.dimension_id, x.dimension_name, x.dim_score>>

CountIn(seq, key) == Cardinality({i \in DOMAIN seq : Key(seq[i]) = key})

\* C11: the list returned by analyze_gaps has exactly one GapItem for each
\* input dimension whose dim_score is non-null and strictly below the resolved
\* threshold and none for any other dimension; each item carries the
\* dimension's dimension_id, dimension_name and dim_score, and threshold minus
\* dim_score is strictly positive for every item.
C11_GapMembership ==
    pc = "gaps_done" =>
        /\ Len(gaps) = Cardinality(GapIdx)
        /\ \A k \in DOMAIN dimensions :
              CountIn(gaps, Key(dimensions[k])) =
                  IF k \in GapIdx
                  THEN Cardinality({j \in GapIdx : Key(dimensions[j]) = Key(dimensions[k])})
                  ELSE 0
        /\ \A i \in DOMAIN gaps :
              /\ gaps[i].dim_score # None
              /\ gaps[i].dimension_name = DimName(gaps[i].dimension_id)
              /\ threshold - gaps[i].dim_score > 0

C11_Witness ==
    /\ pc = "gaps_done"
    /\ threshold = 300
    /\ Len(dimensions) = 2
    /\ dimensions[1].dim_score = 300
    /\ dimensions[2].dim_score = 220
    /\ Len(gaps) = 1
    /\ gaps[1].dimension_id = dimensions[2].dimension_id

\* C12: for every GapItem, with gapValue = resolved threshold - dim_score, the
\* severity is critical if gapValue >= 2.0, significant if 1.0 <= gapValue <
\* 2.0 and moderate if 0 < gapValue < 1.0; dim_score 1.0 under high-risk is
\* critical and dim_score 2.2 under limited-risk is moderate.
C12_SeverityClassification ==
    pc = "gaps_done" =>
        \A i \in DOMAIN gaps :
            LET gapValue == threshold - gaps[i].dim_score
            IN  /\ gaps[i].gap_severity \in Severities
                /\ gaps[i].gap_severity = "critical" <=> gapValue >= 200
                /\ gaps[i].gap_severity = "significant"
                      <=> (100 <= gapValue /\ gapValue < 200)
                /\ gaps[i].gap_severity = "moderate"
                      <=> (0 < gapValue /\ gapValue < 100)
                /\ (risk_category = "high-risk" /\ gaps[i].dim_score = 100)
                      => gaps[i].gap_severity = "critical"
                /\ (risk_category = "limited-risk" /\ gaps[i].dim_score = 220)
                      => gaps[i].gap_severity = "moderate"

C12_Witness ==
    /\ pc = "gaps_done"
    /\ risk_category = "high-risk"
    /\ Len(gaps) = 2
    /\ gaps[1].dim_score = 100 /\ gaps[1].gap_severity = "critical"
    /\ gaps[2].dim_score = 200 /\ gaps[2].gap_severity = "significant"

\* C13: in a list of N gaps returned by analyze_gaps the item at position i
\* has priority_rank i, so the ranks are exactly 1..N, and dim_score does not
\* decrease as priority_rank increases.
C13_RankingCorrect ==
    pc = "gaps_done" =>
        /\ \A i \in DOMAIN gaps : gaps[i].priority_rank = i
        /\ {gaps[i].priority_rank : i \in DOMAIN gaps} = 1..Len(gaps)
        /\ \A i, j \in DOMAIN gaps :
              gaps[i].priority_rank < gaps[j].priority_rank
                  => gaps[i].dim_score <= gaps[j].dim_score

C13_Witness ==
    /\ pc = "gaps_done"
    /\ Len(dimensions) = 2
    /\ dimensions[1].dim_score = 220
    /\ dimensions[2].dim_score = 100
    /\ Len(gaps) = 2
    /\ gaps[1].dim_score = 100 /\ gaps[1].priority_rank = 1
    /\ gaps[2].dim_score = 220 /\ gaps[2].priority_rank = 2

\* the dimension ids of the items of seq with dim_score s, in list order
RECURSIVE IdsWithScore(_, _)
IdsWithScore(seq, s) ==
    IF seq = << >> THEN << >>
    ELSE IF Head(seq).dim_score = s
    THEN <<Head(seq).dimension_id>> \o IdsWithScore(Tail(seq), s)
    ELSE IdsWithScore(Tail(seq), s)

\* C14: gap dimensions of equal dim_score keep their input order: the one
\* earlier in the input list gets the smaller priority_rank (input [D3, D1],
\* both 2.0, yields [D3, D1] with ranks [1, 2]).
C14_StableTies ==
    pc = "gaps_done" =>
        /\ \A s \in GapScoreInputs \ {None} :
              s < threshold => IdsWithScore(gaps, s) = IdsWithScore(dimensions, s)
        /\ \A i, j \in DOMAIN gaps :
              (i < j /\ gaps[i].dim_score = gaps[j].dim_score)
                  => gaps[i].priority_rank < gaps[j].priority_rank

C14_Witness ==
    /\ pc = "gaps_done"
    /\ Len(dimensions) = 2
    /\ dimensions[1].dimension_id = "D3" /\ dimensions[1].dim_score = 200
    /\ dimensions[2].dimension_id = "D1" /\ dimensions[2].dim_score = 200
    /\ Len(gaps) = 2
    /\ gaps[1].dimension_id = "D3" /\ gaps[1].priority_rank = 1
    /\ gaps[2].dimension_id = "D1" /\ gaps[2].priority_rank = 2

HighRiskGaps == analyze_gaps(dimensions, ResolveThreshold(threshold_arg, "high-risk").value)
MinimalRiskGaps == analyze_gaps(dimensions, ResolveThreshold(threshold_arg, "minimal-risk").value)

\* C16: for the same scored dimensions every dimension in the gap list under
\* minimal-risk is also in the gap list under high-risk, and a dimension of the
\* high-risk gap list is in the minimal-risk gap list if and only if its
\* dim_score is below 2.0.
C16_RiskOverrideMonotone ==
    (pc = "gaps_done" /\ risk_category \in {"high-risk", "minimal-risk"}) =>
        /\ gaps = IF risk_category = "high-risk" THEN HighRiskGaps ELSE MinimalRiskGaps
        /\ \A i \in DOMAIN MinimalRiskGaps :
              CountIn(MinimalRiskGaps, Key(MinimalRiskGaps[i]))
                  <= CountIn(HighRiskGaps, Key(MinimalRiskGaps[i]))
        /\ \A i \in DOMAIN HighRiskGaps :
              CountIn(MinimalRiskGaps, Key(HighRiskGaps[i])) =
                  IF HighRiskGaps[i].dim_score < 200
                  THEN CountIn(HighRiskGaps, Key(HighRiskGaps[i]))
                  ELSE 0

C16_Witness ==
    /\ pc = "gaps_done"
    /\ risk_category = "minimal-risk"
    /\ Len(gaps) = 1
    /\ gaps[1].dim_score = 150
    /\ Len(HighRiskGaps) = 2
    /\ HighRiskGaps[2].dim_score = 220

\* what a call of analyze_gaps has no business writing
GapsFrame ==
    /\ dimensions' = dimensions
    /\ recommendations' = recommendations
    /\ risk_thresholds' = risk_thresholds

-----------------------------------------------------------------------------
(* The four engine functions, each called on any of its inputs *)

InitEngine == InitDim \/ InitOverall \/ InitLabel \/ InitGaps

NextEngine == NextDim \/ NextOverall \/ NextLabel \/ NextGaps

SpecEngine == InitEngine /\ [][NextEngine]_vars

MaturityLabels == {"Optimizing", "Measured", "Defined", "Managed", "Initial"}

\* C18: totality: for every well-typed input (any list of dimensions, the
\* empty one, dimensions without dim_score, unknown and duplicate dimension
\* ids, any risk_category or none, any threshold) analyze_gaps returns a list
\* and raises nothing; calculate_dim_score, calculate_overall_score and
\* get_maturity_label likewise end with a defined result.
C18_Totality ==
    /\ pc \notin {"gaps_raised", "overall_raised"}
    /\ pc = "gaps_ready" =>
          ~ResolveThreshold(threshold, risk_category).raised
    /\ pc = "dims_ready" =>
          \A tie_up \in BOOLEAN :
              ~calculate_overall_score(dimensions, weights, tie_up).raised
    /\ pc \in {"gaps_done", "gaps_redone"} =>
          /\ DOMAIN gaps = 1..Len(gaps)
          /\ Len(gaps) <= Len(dimensions)
          /\ \A i \in DOMAIN gaps : gaps[i].gap_severity \in Severities
    /\ DimScored =>
          /\ dimensions[1].num_rated \in 0..Len(dimensions[1].criteria_scores)
          /\ dimensions[1].num_na \in 0..Len(dimensions[1].criteria_scores)
          /\ dimensions[1].dim_score = None \/ dimensions[1].dim_score \in 100..500
    /\ pc = "overall_done" => overall_score \in Int
    /\ pc = "label_done" => maturity_label \in MaturityLabels

C18_Witness ==
    /\ pc = "gaps_done"
    /\ risk_category = "unacceptable"
    /\ Len(dimensions) = 2
    /\ dimensions[1].dimension_id = "D7" /\ dimensions[1].dim_score = None
    /\ dimensions[2].dimension_id = "D7" /\ dimensions[2].dim_score = 100
    /\ Len(gaps) = 1
    /\ gaps[1].recommendation = ""

-----------------------------------------------------------------------------
(* POST /api/assess: submit_assessment, main.py:152-170 *)

MaxRequests == 2

\* criteria lists of a submitted dimension: dim_score None, 1.0, 1.33, 2.5, 5.0
AssessCriteria ==
    {<<CriterionScore(1, None, TRUE)>>,
     <<CriterionScore(1, 1, FALSE)>>,
     <<CriterionScore(1, 1, FALSE), CriterionScore(2, 1, FALSE),
       CriterionScore(3, 2, FALSE)>>,
     <<CriterionScore(1, 2, FALSE), CriterionScore(2, 3, FALSE)>>,
     <<CriterionScore(1, 5, FALSE), CriterionScore(2, 4, TRUE)>>}

\* dim_score as the caller may send it: the model default, or any number
CallerDimScores == {None, 500}

AssessWeights ==
    {NoWeights, [id \in {"D1", "D2"} |-> IF id = "D1" THEN 6 ELSE 3],
     [id \in {"D1", "D2"} |-> 0]}

\* ScopingData.risk_category is a str, "high-risk" when the caller omits it
AssessRiskCategories == {"high-risk", "minimal-risk", "unknown-risk"}

\* models.py:46-50 with the scoping reduced to its risk_category
AssessmentRequest(dims, w, rc) ==
    [dimensions |-> dims, weights |-> w, risk_category |-> rc]

\* models.py:63-70
AssessmentResponse(rc, dims, overall, gs, label) ==
    [risk_category |-> rc, dimensions |-> dims, overall_score |-> overall,
     gaps |-> gs, maturity_label |-> label]

NoResponse == AssessmentResponse("", << >>, None, << >>, "")

\* A call of submit_assessment at its entry: the request object, the locals of
\* the handler, and the body as it was received.
NewCall(request) ==
    [submitted |-> request.dimensions,
     dimensions |-> request.dimensions,
     weights |-> request.weights,
     risk_category |-> request.risk_category,
     scored_dimensions |-> << >>,
     overall_score |-> None,
     maturity_label |-> "",
     gaps |-> << >>,
     response |-> NoResponse,
     pc |-> "scoring"]

SubmittedDimensions(f) ==
    [i \in DOMAIN f |->
        DimensionResult(CanonicalIds[i], f[i][1], f[i][2], 0, 0)]

\* the requests of a single caller
AssessInputs ==
    {AssessmentRequest(SubmittedDimensions(f), w, rc) :
        f \in UNION {[1..n -> AssessCriteria \X CallerDimScores] : n \in 0..MaxDims},
        w \in AssessWeights, rc \in AssessRiskCategories}

\* the requests of callers that are served at the same time
ConcurrentInputs ==
    {AssessmentRequest(SubmittedDimensions(f), w, rc) :
        f \in [1..2 -> {c \in AssessCriteria : Len(c) = 2} \X {500}],
        w \in {NoWeights}, rc \in {"high-risk", "unknown-risk"}}

\* the variables of the single-function specifications, unused here
EngineVars ==
    <<dimensions, weights, risk_category, threshold_arg, threshold,
      overall_score, maturity_label, gaps, pc>>

Init ==
    /\ \/ \E request \in AssessInputs : requests = <<NewCall(request)>>
       \/ \E n \in 2..MaxRequests : \E f \in [1..n -> ConcurrentInputs] :
             requests = [r \in 1..n |-> NewCall(f[r])]
    /\ dimensions = << >>
    /\ weights = NoWeights
    /\ risk_category = Absent
    /\ threshold_arg = DEFAULT_THRESHOLD
    /\ threshold = DEFAULT_THRESHOLD
    /\ overall_score = None
    /\ maturity_label = ""
    /\ gaps = << >>
    /\ pc = "serving"
    /\ recommendations = RECOMMENDATIONS
    /\ risk_thresholds = RISK_THRESHOLDS
    /\ LocalsIdle

\* Variant of the loop body that appends the dimension as the caller sent it.
ScoreNextDimension_trusts_caller(r) ==
    /\ requests[r].pc = "scoring"
    /\ Len(requests[r].scored_dimensions) < Len(requests[r].dimensions)
    /\ LET i == Len(requests[r].scored_dimensions) + 1
           dim == requests[r].dimensions[i]
       IN  requests' =
              [requests EXCEPT
                  ![r].scored_dimensions = Append(@, dim)]
    /\ UNCHANGED <<recommendations, risk_thresholds>>
    /\ UNCHANGED EngineVars
    /\ UNCHANGED LocalVars

\* main.py:156-158: one pass of the loop; calculate_dim_score writes the
\* request's own dimension object and returns it
ScoreNextDimension(r) ==
    /\ requests[r].pc = "scoring"
    /\ Len(requests[r].scored_dimensions) < Len(requests[r].dimensions)
    /\ LET i == Len(requests[r].scored_dimensions) + 1
           scored_dim == calculate_dim_score(requests[r].dimensions[i])
       IN  requests' =
              [requests EXCEPT
                  ![r].dimensions[i] = scored_dim,
                  ![r].scored_dimensions = Append(@, scored_dim)]
    /\ UNCHANGED <<recommendations, risk_thresholds>>
    /\ UNCHANGED EngineVars
    /\ UNCHANGED LocalVars

\* Variant of ComputeOverall that reads the list of the first call in progress.
ComputeOverall_of_first_call(r) ==
    /\ requests[r].pc = "scoring"
    /\ Len(requests[r].scored_dimensions) = Len(requests[r].dimensions)
    /\ \E tie_up \in BOOLEAN :
          LET o == calculate_overall_score(requests[1].scored_dimensions,
                                           requests[r].weights, tie_up)
          IN  requests' =
                 IF o.raised
                 THEN [requests EXCEPT ![r].pc = "failed"]
                 ELSE [requests EXCEPT ![r].overall_score = o.value,
                                       ![r].pc = "overall_done"]
    /\ UNCHANGED <<recommendations, risk_thresholds>>
    /\ UNCHANGED EngineVars
    /\ UNCHANGED LocalVars

\* main.py:160, reached when the loop is exhausted
ComputeOverall(r) ==
    /\ requests[r].pc = "scoring"
    /\ Len(requests[r].scored_dimensions) = Len(requests[r].dimensions)
    /\ \E tie_up \in BOOLEAN :
          LET o == calculate_overall_score(requests[r].scored_dimensions,
                                           requests[r].weights, tie_up)
          IN  requests' =
                 IF o.raised
                 THEN [requests EXCEPT ![r].pc = "failed"]
                 ELSE [requests EXCEPT ![r].overall_score = o.value,
                                       ![r].pc = "overall_done"]
    /\ UNCHANGED <<recommendations, risk_thresholds>>
    /\ UNCHANGED EngineVars
    /\ UNCHANGED LocalVars

\* main.py:161
ComputeLabel(r) ==
    /\ requests[r].pc = "overall_done"
    /\ requests' =
          [requests EXCEPT
              ![r].maturity_label = get_maturity_label(requests[r].overall_score),
              ![r].pc = "labelled"]
    /\ UNCHANGED <<recommendations, risk_thresholds>>
    /\ UNCHANGED EngineVars
    /\ UNCHANGED LocalVars

\* main.py:162: analyze_gaps with its default threshold and the scoping's
\* risk_category
ComputeGaps(r) ==
    /\ requests[r].pc = "labelled"
    /\ LET t == ResolveThreshold(DEFAULT_THRESHOLD, requests[r].risk_category)
       IN  requests' =
              IF t.raised
              THEN [requests EXCEPT ![r].pc = "failed"]
              ELSE [requests EXCEPT
                       ![r].gaps = analyze_gaps(requests[r].scored_dimensions,
                                                t.value),
                       ![r].pc = "analyzed"]
    /\ UNCHANGED <<recommendations, risk_thresholds>>
    /\ UNCHANGED EngineVars
    /\ UNCHANGED LocalVars

\* main.py:164-170
Respond(r) ==
    /\ requests[r].pc = "analyzed"
    /\ requests' =
          [requests EXCEPT
              ![r].response =
                  AssessmentResponse(requests[r].risk_category,
                                     requests[r].scored_dimensions,
                                     requests[r].overall_score,
                                     requests[r].gaps,
                                     requests[r].maturity_label),
              ![r].pc = "responded"]
    /\ UNCHANGED <<recommendations, risk_thresholds>>
    /\ UNCHANGED EngineVars
    /\ UNCHANGED LocalVars

submit_assessment(r) ==
    \/ ScoreNextDimension(r)
    \/ ComputeOverall(r)
    \/ ComputeLabel(r)
    \/ ComputeGaps(r)
    \/ Respond(r)

Next == \E r \in DOMAIN requests : submit_assessment(r)

Spec == Init /\ [][Next]_vars

-----------------------------------------------------------------------------
(* Properties of submit_assessment *)

\* the dimensions of a body scored afresh, whatever derived fields it carried
FreshlyScored(dims) == [i \in DOMAIN dims |-> calculate_dim_score(dims[i])]

\* a body with the caller's dim_score values replaced by s
WithCallerDimScore(dims, s) ==
    [i \in DOMAIN dims |-> [dims[i] EXCEPT !.dim_score = s]]

\* C19: in every call of submit_assessment all submitted dimensions are scored,
\* in submission order, before the overall score and the gaps are computed;
\* the response carries the dimensions in submission order with a freshly
\* computed dim_score, overall_score is calculate_overall_score of those
\* dimensions with the request's weights, maturity_label is
\* get_maturity_label(overall_score), gaps is analyze_gaps of those dimensions
\* under the scoping's risk_category (threshold 3.0 when the category is not
\* in the table), and none of them depends on a dim_score the caller sent.
C19_PipelineConsistency ==
    \A r \in DOMAIN requests :
        LET call == requests[r]
            fresh == FreshlyScored(call.submitted)
            thr == IF call.risk_category \in DOMAIN RISK_THRESHOLDS
                   THEN RISK_THRESHOLDS[call.risk_category]
                   ELSE DEFAULT_THRESHOLD
        IN  /\ call.pc # "failed"
            /\ call.scored_dimensions =
                  SubSeq(fresh, 1, Len(call.scored_dimensions))
            /\ call.pc # "scoring" => call.scored_dimensions = fresh
            /\ call.pc \in {"overall_done", "labelled", "analyzed", "responded"}
                  => Return(call.overall_score)
                         \in OverallResults(fresh, call.weights)
            /\ call.pc \in {"labelled", "analyzed", "responded"}
                  => call.maturity_label = get_maturity_label(call.overall_score)
            /\ call.pc \in {"analyzed", "responded"}
                  => call.gaps = analyze_gaps(fresh, thr)
            /\ call.pc = "responded" =>
                  /\ call.response =
                        AssessmentResponse(call.risk_category, fresh,
                                           call.overall_score, call.gaps,
                                           call.maturity_label)
                  /\ \A s \in {None, 100, 500} :
                        LET other == FreshlyScored(
                                        WithCallerDimScore(call.submitted, s))
                        IN  /\ call.response.dimensions = other
                            /\ Return(call.response.overall_score)
                                  \in OverallResults(other, call.weights)
                            /\ call.response.gaps = analyze_gaps(other, thr)

C19_Witness ==
    /\ Len(requests) = 1
    /\ requests[1].pc = "responded"
    /\ requests[1].risk_category = "unknown-risk"
    /\ requests[1].weights # NoWeights
    /\ Len(requests[1].submitted) = 2
    /\ requests[1].submitted[1].dim_score = 500
    /\ requests[1].submitted[2].dim_score = 500
    /\ requests[1].response.dimensions[1].dim_score = 250
    /\ requests[1].response.dimensions[2].dim_score = 133
    /\ requests[1].response.overall_score = 211
    /\ requests[1].response.maturity_label = "Managed"
    /\ Len(requests[1].response.gaps) = 2
    /\ requests[1].response.gaps[1].dimension_id = "D2"

-----------------------------------------------------------------------------
(* Properties of the recommendation catalog *)

CanonicalDimensions == {CanonicalIds[i] : i \in DOMAIN CanonicalIds}

\* C20: the catalog has a non-empty entry for each of D1..D6 and each of the
\* severities critical, significant and moderate; hence every gap of one of
\* these dimensions carries the non-empty entry of exactly its dimension and
\* severity, and the lookup never falls back to the moderate entry.
C20_CatalogComplete ==
    /\ \A id \in CanonicalDimensions :
          /\ id \in DOMAIN recommendations
          /\ \A severity \in Severities :
                /\ severity \in DOMAIN recommendations[id]
                /\ recommendations[id][severity] # ""
    /\ pc \in {"gaps_done", "gaps_redone"} =>
          \A i \in DOMAIN gaps :
              gaps[i].dimension_id \in CanonicalDimensions =>
                  LET entries == recommendations[gaps[i].dimension_id]
                  IN  /\ gaps[i].gap_severity \in DOMAIN entries
                      /\ gaps[i].recommendation = entries[gaps[i].gap_severity]
                      /\ gaps[i].recommendation # ""
                      /\ gaps[i].gap_severity # "moderate"
                            => gaps[i].recommendation # entries["moderate"]

C20_Witness ==
    /\ pc = "gaps_done"
    /\ Len(gaps) = 2
    /\ gaps[1].dimension_id = "D3"
    /\ gaps[1].gap_severity = "critical"
    /\ gaps[1].recommendation = "D3:critical"
    /\ gaps[2].dimension_id = "D1"
    /\ gaps[2].gap_severity = "moderate"
    /\ gaps[2].recommendation = "D1:moderate"

-----------------------------------------------------------------------------
(* Properties of concurrent calls of submit_assessment *)

\* the threshold analyze_gaps uses for the scoping's risk_category
TableThreshold(rc) ==
    IF rc \in DOMAIN RISK_THRESHOLDS THEN RISK_THRESHOLDS[rc]
    ELSE DEFAULT_THRESHOLD

\* the responses a request gets when it is the only one being served
AloneResponses(call) ==
    LET fresh == FreshlyScored(call.submitted)
    IN  {AssessmentResponse(call.risk_category, fresh, o.value,
                            analyze_gaps(fresh, TableThreshold(call.risk_category)),
                            get_maturity_label(o.value)) :
            o \in OverallResults(fresh, call.weights)}

\* the records one step of submit_assessment leads to, from the call's own
\* record and nothing else
AloneSteps(call) ==
    LET n == Len(call.scored_dimensions)
    IN  IF call.pc = "scoring" /\ n < Len(call.dimensions)
        THEN {[call EXCEPT
                  !.dimensions[n + 1] = calculate_dim_score(call.dimensions[n + 1]),
                  !.scored_dimensions =
                      Append(@, calculate_dim_score(call.dimensions[n + 1]))]}
        ELSE IF call.pc = "scoring"
        THEN {[call EXCEPT !.overall_score = o.value, !.pc = "overall_done"] :
                 o \in OverallResults(call.scored_dimensions, call.weights)}
        ELSE IF call.pc = "overall_done"
        THEN {[call EXCEPT
                  !.maturity_label = get_maturity_label(call.overall_score),
                  !.pc = "labelled"]}
        ELSE IF call.pc = "labelled"
        THEN {[call EXCEPT
                  !.gaps = analyze_gaps(call.scored_dimensions,
                                        TableThreshold(call.risk_category)),
                  !.pc = "analyzed"]}
        ELSE IF call.pc = "analyzed"
        THEN {[call EXCEPT
                  !.response =
                      AssessmentResponse(call.risk_category, call.scored_dimensions,
                                         call.overall_score, call.gaps,
                                         call.maturity_label),
                  !.pc = "responded"]}
        ELSE {}

\* C21: when several requests, each with its own dimension objects, are served
\* in any interleaving of their steps, every step is a step of one request
\* that depends on and changes that request's data only, no step writes
\* RECOMMENDATIONS or RISK_THRESHOLDS, and each request's response is a
\* response it gets when it is served alone.
C21_RequestIsolation ==
    [][\E r \in DOMAIN requests :
          /\ DOMAIN requests' = DOMAIN requests
          /\ \A q \in DOMAIN requests \ {r} : requests'[q] = requests[q]
          /\ requests'[r] \in AloneSteps(requests[r])
          /\ requests'[r].submitted = requests[r].submitted
          /\ requests'[r].pc = "responded"
                => requests'[r].response \in AloneResponses(requests'[r])
          /\ recommendations' = recommendations
          /\ risk_thresholds' = risk_thresholds]_vars

C21_Witness ==
    /\ Len(requests) = 2
    /\ requests[1].pc = "responded"
    /\ requests[2].pc = "responded"
    /\ requests[1].response.overall_score = 375
    /\ requests[2].response.overall_score = 250
    /\ Len(requests[1].response.gaps) = 1
    /\ Len(requests[2].response.gaps) = 2

-----------------------------------------------------------------------------
(* analyze_gaps statement by statement, analysis.py:84-118 *)

\* the engine variables a call of analyze_gaps does not touch
GapItemsFrame ==
    <<dimensions, weights, risk_category, threshold_arg, overall_score,
      maturity_label, recommendations, risk_thresholds, requests,
      text, sanitized, endpoint, body, rag_queries, llm_calls, events,
      provider>>

InitGapItems ==
    /\ \E n \in 0..MaxDims : \E f \in [1..n -> GapDimIds \X GapScoreInputs] :
          dimensions = DimensionList(f)
    /\ weights = NoWeights
    /\ risk_category \in {Absent, "high-risk"}
    /\ threshold_arg = DEFAULT_THRESHOLD
    /\ threshold = threshold_arg
    /\ overall_score = None
    /\ maturity_label = ""
    /\ gaps = << >>
    /\ pc = "items_called"
    /\ recommendations = RECOMMENDATIONS
    /\ risk_thresholds = RISK_THRESHOLDS
    /\ requests = << >>
    /\ LocalsIdle

\* analysis.py:85-88
EnterAnalyzeGaps ==
    /\ pc = "items_called"
    /\ threshold' = ResolveThreshold(threshold, risk_category).value
    /\ gaps' = << >>
    /\ gap_ids' = << >>
    /\ loop_index' = 0
    /\ pc' = "collecting"
    /\ UNCHANGED GapItemsFrame

\* analysis.py:89-111: one pass of the loop over the dimensions; a GapItem
\* that is constructed is a new object
CollectStep ==
    /\ pc = "collecting"
    /\ loop_index < Len(dimensions)
    /\ LET dim == dimensions[loop_index + 1]
           severity == Severity(threshold - dim.dim_score)
       IN  IF dim.dim_score # None /\ dim.dim_score < threshold
           THEN /\ gaps' = Append(gaps,
                             GapItem(dim, severity, 0,
                                     Recommendation(dim.dimension_id, severity)))
                /\ gap_ids' = Append(gap_ids, Len(gap_ids) + 1)
           ELSE UNCHANGED <<gaps, gap_ids>>
    /\ loop_index' = loop_index + 1
    /\ UNCHANGED <<threshold, pc>>
    /\ UNCHANGED GapItemsFrame

\* the objects of gs by identity, with the key the sort uses
Tagged(gs, ids) ==
    [k \in DOMAIN gs |-> [dim_score |-> gs[k].dim_score, at |-> k, id |-> ids[k]]]

\* analysis.py:114: the list is sorted in place, the objects stay what they are
SortStep ==
    /\ pc = "collecting"
    /\ loop_index = Len(dimensions)
    /\ LET sorted == SortByScore(Tagged(gaps, gap_ids))
       IN  /\ gaps' = [k \in DOMAIN sorted |-> gaps[sorted[k].at]]
           /\ gap_ids' = [k \in DOMAIN sorted |-> sorted[k].id]
    /\ loop_index' = 0
    /\ pc' = "ranking"
    /\ UNCHANGED threshold
    /\ UNCHANGED GapItemsFrame

\* Variant of RankStep that also rewrites the severity of the object.
RankStep_reclassifies ==
    /\ pc = "ranking"
    /\ loop_index < Len(gaps)
    /\ gaps' = [gaps EXCEPT ![loop_index + 1].priority_rank = loop_index + 1,
                            ![loop_index + 1].gap_severity = "critical"]
    /\ loop_index' = loop_index + 1
    /\ UNCHANGED <<threshold, pc, gap_ids>>
    /\ UNCHANGED GapItemsFrame

\* analysis.py:115-116: one pass of the loop that assigns gap.priority_rank
RankStep ==
    /\ pc = "ranking"
    /\ loop_index < Len(gaps)
    /\ gaps' = [gaps EXCEPT ![loop_index + 1].priority_rank = loop_index + 1]
    /\ loop_index' = loop_index + 1
    /\ UNCHANGED <<threshold, pc, gap_ids>>
    /\ UNCHANGED GapItemsFrame

\* analysis.py:118
ReturnGaps ==
    /\ pc = "ranking"
    /\ loop_index = Len(gaps)
    /\ pc' = "items_returned"
    /\ UNCHANGED <<threshold, gaps, gap_ids, loop_index>>
    /\ UNCHANGED GapItemsFrame

NextGapItems ==
    EnterAnalyzeGaps \/ CollectStep \/ SortStep \/ RankStep \/ ReturnGaps

SpecGapItems == InitGapItems /\ [][NextGapItems]_vars

\* the places of gaps and gaps' that hold the same GapItem object
SameObject(a, b) ==
    /\ a \in DOMAIN gaps
    /\ b \in DOMAIN gaps'
    /\ a \in DOMAIN gap_ids
    /\ b \in DOMAIN gap_ids'
    /\ gap_ids[a] = gap_ids'[b]

\* C22 as stated: within analyze_gaps no field of a GapItem that has been
\* constructed is assigned again.
C22_NeverAssignedAgain ==
    [][\A a \in DOMAIN gaps : \A b \in DOMAIN gaps' :
          SameObject(a, b) => gaps'[b] = gaps[a]]_vars

\* C22: within analyze_gaps a GapItem that has been constructed keeps its
\* dimension_id, dimension_name, dim_score, gap_severity and recommendation;
\* its priority_rank, constructed as 0, is assigned once more, after the sort,
\* to the place the object has in the sorted list, and is not assigned again
\* after that; the list that is returned is the one analyze_gaps is specified
\* to return.
C22_OnlyRankAssignedOnce ==
    [][/\ \A a \in DOMAIN gaps : \A b \in DOMAIN gaps' :
             SameObject(a, b) =>
                /\ [gaps'[b] EXCEPT !.priority_rank = 0]
                      = [gaps[a] EXCEPT !.priority_rank = 0]
                /\ gaps'[b].priority_rank # gaps[a].priority_rank =>
                      /\ pc = "ranking"
                      /\ gaps[a].priority_rank = 0
                      /\ gaps'[b].priority_rank = b
                      /\ a = b
       /\ pc' = "items_returned" =>
             /\ gaps' = analyze_gaps(dimensions, threshold)
             /\ gaps' = gaps]_vars

C22_Witness ==
    /\ pc = "items_returned"
    /\ gap_ids = <<2, 1>>
    /\ gaps[1].priority_rank = 1
    /\ gaps[2].priority_rank = 2
    /\ gaps[1].dim_score < gaps[2].dim_score

-----------------------------------------------------------------------------
(* More properties of calculate_overall_score *)

\* C23: when all scored dimensions have the same dim_score s, and there is at
\* least one, calculate_overall_score without weights returns s; six
\* dimensions all scoring 3.0 give the overall score 3.0 and the maturity
\* label Defined.
C23_EqualScores ==
    (pc = "overall_done" /\ weights = NoWeights) =>
        /\ \A k \in ScoredSet :
              (\A l \in ScoredSet : DimScoreOf[l] = DimScoreOf[k])
                  => overall_score = DimScoreOf[k]
        /\ dimensions = Scenario3 =>
              /\ overall_score = 300
              /\ get_maturity_label(overall_score) = "Defined"

C23_Witness ==
    /\ pc = "overall_done"
    /\ weights = NoWeights
    /\ dimensions = Scenario3
    /\ overall_score = 300

-----------------------------------------------------------------------------
(* conversation.py: sanitize_input *)

MaxRuns == 3

MAX_MESSAGE_LENGTH == 3000

\* A text is written as its runs of equal characters, <<[char, count], ...>>
\* with count >= 1 and neighbouring runs of different characters, so that
\* texts of some thousand characters can be told apart by their length.
\* "a" is an ordinary character, "NUL" one of the control characters of the
\* class [\x00-\x08\x0b\x0c\x0e-\x1f\x7f], and an "x" directly followed by a
\* "y" is a phrase one of the INJECTION_PATTERNS finds.
Chars == {"a", "x", "y", "NUL"}

Run(c, n) == [char |-> c, count |-> n]

RECURSIVE TextLen(_)
TextLen(t) == IF t = << >> THEN 0 ELSE Head(t).count + TextLen(Tail(t))

\* t[:n]
RECURSIVE Take(_, _)
Take(t, n) ==
    IF t = << >> \/ n <= 0 THEN << >>
    ELSE IF Head(t).count <= n
    THEN <<Head(t)>> \o Take(Tail(t), n - Head(t).count)
    ELSE <<Run(Head(t).char, n)>>

\* the runs of a concatenation: neighbours of the same character are one run
RECURSIVE Normalize(_)
Normalize(t) ==
    IF Len(t) <= 1 THEN t
    ELSE IF t[1].char = t[2].char
    THEN Normalize(<<Run(t[1].char, t[1].count + t[2].count)>>
                       \o SubSeq(t, 3, Len(t)))
    ELSE <<t[1]>> \o Normalize(Tail(t))

IsControl(run) == run.char = "NUL"
NotControl(run) == ~IsControl(run)

\* conversation.py:68, re.sub of the control characters by ''
StripControl(t) == Normalize(SelectSeq(t, NotControl))

\* conversation.py:71-73: some pattern matches somewhere in the text
InjectionFound(t) ==
    \E k \in 1..(Len(t) - 1) : t[k].char = "x" /\ t[k + 1].char = "y"

TRUNCATED_WARNING == "Message truncated to maximum length."
INJECTION_WARNING == "prompt_injection_detected"

\* Variant of sanitize_input that looks for the patterns in the whole text.
sanitize_input_whole_text(t) ==
    LET truncated == IF TextLen(t) > MAX_MESSAGE_LENGTH
                     THEN Take(t, MAX_MESSAGE_LENGTH) ELSE t
        warnings == IF TextLen(t) > MAX_MESSAGE_LENGTH
                    THEN <<TRUNCATED_WARNING>> ELSE << >>
        cleaned == StripControl(truncated)
    IN  IF InjectionFound(StripControl(t))
        THEN [text |-> cleaned, warnings |-> Append(warnings, INJECTION_WARNING)]
        ELSE [text |-> cleaned, warnings |-> warnings]

\* conversation.py:54-80
sanitize_input(t) ==
    LET truncated == IF TextLen(t) > MAX_MESSAGE_LENGTH
                     THEN Take(t, MAX_MESSAGE_LENGTH) ELSE t
        \* `truncated is not text`: the slice is a new object, taken only
        \* when the text is longer than the limit
        warnings == IF TextLen(t) > MAX_MESSAGE_LENGTH
                    THEN <<TRUNCATED_WARNING>> ELSE << >>
        cleaned == StripControl(truncated)
    IN  IF InjectionFound(cleaned)
        THEN [text |-> cleaned, warnings |-> Append(warnings, INJECTION_WARNING)]
        ELSE [text |-> cleaned, warnings |-> warnings]

RunLengths == {1, MAX_MESSAGE_LENGTH - 1, MAX_MESSAGE_LENGTH}

IsText(t) ==
    \A k \in 1..(Len(t) - 1) : t[k].char # t[k + 1].char

TextOf(f) == [k \in DOMAIN f |-> Run(f[k][1], f[k][2])]

NotSanitized == [text |-> << >>, warnings |-> << >>]

\* the engine variables that text handling does not use
EngineIdle ==
    /\ dimensions = << >>
    /\ weights = NoWeights
    /\ risk_category = Absent
    /\ threshold_arg = DEFAULT_THRESHOLD
    /\ threshold = DEFAULT_THRESHOLD
    /\ overall_score = None
    /\ maturity_label = ""
    /\ gaps = << >>
    /\ recommendations = RECOMMENDATIONS
    /\ risk_thresholds = RISK_THRESHOLDS
    /\ requests = << >>
    /\ loop_index = 0
    /\ gap_ids = << >>

InitSanitize ==
    /\ \E n \in 0..MaxRuns : \E f \in [1..n -> Chars \X RunLengths] :
          /\ IsText(TextOf(f))
          /\ text = TextOf(f)
    /\ sanitized = NotSanitized
    /\ pc = "text_ready"
    /\ EngineIdle
    /\ StreamIdle

SanitizeInput ==
    /\ pc = "text_ready"
    /\ sanitized' = sanitize_input(text)
    /\ pc' = "text_sanitized"
    /\ UNCHANGED text
    /\ UNCHANGED EngineVarsButPc
    /\ UNCHANGED StreamVars

NextSanitize == SanitizeInput

SpecSanitize == InitSanitize /\ [][NextSanitize]_vars

-----------------------------------------------------------------------------
(* The streaming endpoints of main.py and the stream functions of
   llm_client.py *)

MaxMessages == 2
MaxChunks == 2

\* None where a text is optional: no text has a run without characters
NoneText == <<Run("None", 0)>>

\* Python truthiness of an Optional[str]
TextTruthy(t) == t # NoneText /\ t # << >>

\* a or b
TextOr(a, b) == IF TextTruthy(a) THEN a ELSE b

\* texts the code writes itself: the fixed user instruction of a stream
\* function, and a RAG query built from the dimension
FixedInstruction == <<Run("f", 1)>>
BuiltQuery == <<Run("q", 1)>>

\* what a user may write: nothing, a word, a phrase the patterns find, a
\* control character, a phrase that a control character splits, a text over
\* the limit, and a phrase the limit splits
UserTexts ==
    {<< >>,
     <<Run("a", 1)>>,
     <<Run("x", 1), Run("y", 1)>>,
     <<Run("NUL", 1), Run("a", 1)>>,
     <<Run("x", 1), Run("NUL", 1), Run("y", 1)>>,
     <<Run("a", MAX_MESSAGE_LENGTH), Run("NUL", 1)>>,
     <<Run("a", MAX_MESSAGE_LENGTH - 1), Run("x", 1), Run("y", 1)>>}

ChatMessage(role, content) == [role |-> role, content |-> content]

\* main.py:200-204: the content of the last message of role user, or ''
RECURSIVE LastUserMessage(_)
LastUserMessage(messages) ==
    IF messages = << >> THEN << >>
    ELSE IF messages[Len(messages)].role = "user"
    THEN messages[Len(messages)].content
    ELSE LastUserMessage(SubSeq(messages, 1, Len(messages) - 1))

\* the ids rag_engine.knowledge_base knows
KnownDimensions == {CanonicalIds[k] : k \in DOMAIN CanonicalIds}

Flagged(result) ==
    \E k \in DOMAIN result.warnings : result.warnings[k] = INJECTION_WARNING

TextEvent(content) == [type |-> "text", content |-> content]
FollowupEvent == [type |-> "followup", content |-> "question"]
CleanTextEvent == [type |-> "clean_text", content |-> "clean"]
DoneEvent == [type |-> "[DONE]", content |-> ""]

\* the arguments of stream_fn(system, messages) as far as a user wrote them:
\* the follow-up text put into the system prompt, and the messages
LlmCall(followup, messages) == [followup |-> followup, messages |-> messages]

ProviderKinds == {"not_installed", "no_key", "ok", "fails"}

ProviderInputs ==
    {[kind |-> k, chunks |-> n, delivered |-> 0] :
        k \in ProviderKinds, n \in 0..MaxChunks}

OptionalTexts == UserTexts \cup {NoneText}

InitStreams ==
    /\ \/ /\ endpoint = "/api/chat"
          /\ \E n \in 0..MaxMessages :
                \E f \in [1..n -> {"user", "assistant"} \X UserTexts] :
                   body = [messages |->
                              [k \in 1..n |-> ChatMessage(f[k][1], f[k][2])]]
          /\ pc = "chat_received"
       \/ /\ endpoint = "/api/assistant"
          /\ \E q \in UserTexts : body = [question |-> q]
          /\ pc = "assistant_received"
       \/ /\ endpoint = "/api/assessment/analyze-dimension"
          /\ \E d \in {"D1", "D9"}, t \in OptionalTexts,
                prior \in {NoneText, <<Run("a", 1)>>} :
                body = [dimension_id |-> d, followup_context |-> t,
                        prior_analysis |-> prior]
          /\ pc = "analyze_received"
       \/ /\ endpoint = "/api/results/deep-analysis"
          /\ \E d \in {"D1", "D9"}, t \in OptionalTexts,
                prior \in {NoneText, <<Run("a", 1)>>} :
                body = [dimension_id |-> d, followup |-> t,
                        prior_analysis |-> prior]
          /\ pc = "deep_received"
       \/ /\ endpoint = "/api/results/stream-summary"
          /\ \E t \in UserTexts : body = [conversation_summary |-> t]
          /\ pc = "summary_received"
    /\ provider \in {b \in ProviderInputs :
                        b.kind \in {"ok", "fails"} \/ b.chunks = 0}
    /\ text = NoneText
    /\ sanitized = NotSanitized
    /\ rag_queries = << >>
    /\ llm_calls = << >>
    /\ events = << >>
    /\ EngineIdle

\* what the handlers and generators leave alone
StreamFrame == EngineVarsButPc

\* main.py:199-210
ChatReceive ==
    /\ pc = "chat_received"
    /\ LET last_user_msg == LastUserMessage(body.messages)
       IN  IF last_user_msg = << >>
           THEN pc' = "http_error" /\ UNCHANGED <<text, sanitized>>
           ELSE /\ text' = last_user_msg
                /\ sanitized' = sanitize_input(last_user_msg)
                /\ pc' = "chat_sanitized"
    /\ UNCHANGED <<endpoint, body, rag_queries, llm_calls, events, provider>>
    /\ UNCHANGED StreamFrame

\* main.py:211-225: the response streams generate_safe()
ChatReject ==
    /\ pc = "chat_sanitized"
    /\ Flagged(sanitized)
    /\ pc' = "safe_stream"
    /\ UNCHANGED <<text, sanitized>>
    /\ UNCHANGED <<endpoint, body, rag_queries, llm_calls, events, provider>>
    /\ UNCHANGED StreamFrame

\* main.py:227-261: retrieval with the sanitized message; the response
\* streams generate()
ChatRetrieve ==
    /\ pc = "chat_sanitized"
    /\ ~Flagged(sanitized)
    /\ rag_queries' = Append(rag_queries, sanitized.text)
    /\ pc' = "llm_pending"
    /\ UNCHANGED <<text, sanitized>>
    /\ UNCHANGED <<endpoint, body, llm_calls, events, provider>>
    /\ UNCHANGED StreamFrame

\* main.py:404-405
AssistantReceive ==
    /\ pc = "assistant_received"
    /\ text' = body.question
    /\ sanitized' = sanitize_input(body.question)
    /\ pc' = "assistant_sanitized"
    /\ UNCHANGED <<endpoint, body, rag_queries, llm_calls, events, provider>>
    /\ UNCHANGED StreamFrame

\* main.py:406-414: the response streams gen_safe()
AssistantReject ==
    /\ pc = "assistant_sanitized"
    /\ Flagged(sanitized)
    /\ pc' = "safe_stream"
    /\ UNCHANGED <<text, sanitized>>
    /\ UNCHANGED <<endpoint, body, rag_queries, llm_calls, events, provider>>
    /\ UNCHANGED StreamFrame

\* main.py:416-454
AssistantRetrieve ==
    /\ pc = "assistant_sanitized"
    /\ ~Flagged(sanitized)
    /\ rag_queries' = Append(rag_queries, sanitized.text)
    /\ pc' = "llm_pending"
    /\ UNCHANGED <<text, sanitized>>
    /\ UNCHANGED <<endpoint, body, llm_calls, events, provider>>
    /\ UNCHANGED StreamFrame

\* Variant of FollowupText that keeps a flagged follow-up.
FollowupText_keeps_flagged(followup) ==
    IF TextTruthy(followup) THEN sanitize_input(followup).text ELSE followup

\* main.py:301-306 and 353-358: followup_text after the sanitization, None
\* when it was flagged
FollowupText(followup) ==
    IF TextTruthy(followup)
    THEN IF Flagged(sanitize_input(followup)) THEN NoneText
         ELSE sanitize_input(followup).text
    ELSE followup

\* main.py:297-336
AnalyzeDimension ==
    /\ pc = "analyze_received"
    /\ IF body.dimension_id \notin KnownDimensions
       THEN pc' = "http_error" /\ UNCHANGED <<text, sanitized, rag_queries>>
       ELSE /\ text' = FollowupText(body.followup_context)
            /\ sanitized' = IF TextTruthy(body.followup_context)
                            THEN sanitize_input(body.followup_context)
                            ELSE sanitized
            /\ rag_queries' = Append(rag_queries, TextOr(text', BuiltQuery))
            /\ pc' = "llm_pending"
    /\ UNCHANGED <<endpoint, body, llm_calls, events, provider>>
    /\ UNCHANGED StreamFrame

\* main.py:349-391
DeepAnalysis ==
    /\ pc = "deep_received"
    /\ IF body.dimension_id \notin KnownDimensions
       THEN pc' = "http_error" /\ UNCHANGED <<text, sanitized, rag_queries>>
       ELSE /\ text' = FollowupText(body.followup)
            /\ sanitized' = IF TextTruthy(body.followup)
                            THEN sanitize_input(body.followup)
                            ELSE sanitized
            /\ rag_queries' = Append(rag_queries, TextOr(text', BuiltQuery))
            /\ pc' = "llm_pending"
    /\ UNCHANGED <<endpoint, body, llm_calls, events, provider>>
    /\ UNCHANGED StreamFrame

\* main.py:466-573: the queries are built from the gaps, not from user text
StreamSummary ==
    /\ pc = "summary_received"
    /\ rag_queries' = Append(rag_queries, BuiltQuery)
    /\ pc' = "llm_pending"
    /\ UNCHANGED <<text, sanitized>>
    /\ UNCHANGED <<endpoint, body, llm_calls, events, provider>>
    /\ UNCHANGED StreamFrame

\* main.py:217-220 and 411-413: the fixed safe message
SafeMessage ==
    /\ pc = "safe_stream"
    /\ events' = Append(events, TextEvent("safe"))
    /\ pc' = "done_pending"
    /\ UNCHANGED <<text, sanitized>>
    /\ UNCHANGED <<endpoint, body, rag_queries, llm_calls, provider>>
    /\ UNCHANGED StreamFrame

\* the follow-up text the prompt builder puts into the system prompt:
\* llm_client.py:378-387 and 507-511
PromptFollowup ==
    IF endpoint = "/api/assessment/analyze-dimension"
    THEN IF TextTruthy(text) THEN text ELSE NoneText
    ELSE IF endpoint = "/api/results/deep-analysis"
    THEN IF TextTruthy(text) /\ TextTruthy(body.prior_analysis)
         THEN text ELSE NoneText
    ELSE NoneText

\* the messages the stream function of each endpoint hands to the provider:
\* main.py:240-250, llm_client.py:202, 308, 401, 527, 545 and main.py:564
PromptMessages ==
    IF endpoint = "/api/chat" THEN body.messages
    ELSE IF endpoint = "/api/assistant"
    THEN <<ChatMessage("user", sanitized.text)>>
    ELSE IF endpoint = "/api/results/stream-summary"
    THEN <<ChatMessage("user",
                       TextOr(body.conversation_summary, FixedInstruction))>>
    ELSE <<ChatMessage("user", FixedInstruction)>>

\* the generator starts: the stream function calls stream_fn(system, messages)
CallProvider ==
    /\ pc = "llm_pending"
    /\ llm_calls' = Append(llm_calls, LlmCall(PromptFollowup, PromptMessages))
    /\ pc' = "streaming"
    /\ UNCHANGED <<text, sanitized>>
    /\ UNCHANGED <<endpoint, body, rag_queries, events, provider>>
    /\ UNCHANGED StreamFrame

\* llm_client.py:553-562: package missing or key not set: one chunk with the
\* error text, then the provider's generator returns
ProviderUnavailable ==
    /\ pc = "streaming"
    /\ provider.kind \in {"not_installed", "no_key"}
    /\ events' = Append(events, TextEvent("error"))
    /\ provider' = [provider EXCEPT !.kind = "ended"]
    /\ UNCHANGED <<text, sanitized, pc>>
    /\ UNCHANGED <<endpoint, body, rag_queries, llm_calls>>
    /\ UNCHANGED StreamFrame

\* llm_client.py:579-582: one chunk of the model's text
ProviderChunk ==
    /\ pc = "streaming"
    /\ provider.kind \in {"ok", "fails"}
    /\ provider.delivered < provider.chunks
    /\ events' = Append(events, TextEvent("chunk"))
    /\ provider' = [provider EXCEPT !.delivered = @ + 1]
    /\ UNCHANGED <<text, sanitized, pc>>
    /\ UNCHANGED <<endpoint, body, rag_queries, llm_calls>>
    /\ UNCHANGED StreamFrame

\* Variant of ProviderFails in which the exception leaves the generator.
ProviderFails_aborts ==
    /\ pc = "streaming"
    /\ provider.kind = "fails"
    /\ provider.delivered = provider.chunks
    /\ pc' = "aborted"
    /\ UNCHANGED <<text, sanitized, events, provider>>
    /\ UNCHANGED <<endpoint, body, rag_queries, llm_calls>>
    /\ UNCHANGED StreamFrame

\* llm_client.py:583-584: the request or the stream raises: one chunk with
\* the error text
ProviderFails ==
    /\ pc = "streaming"
    /\ provider.kind = "fails"
    /\ provider.delivered = provider.chunks
    /\ events' = Append(events, TextEvent("error"))
    /\ provider' = [provider EXCEPT !.kind = "ended"]
    /\ UNCHANGED <<text, sanitized, pc>>
    /\ UNCHANGED <<endpoint, body, rag_queries, llm_calls>>
    /\ UNCHANGED StreamFrame

\* the provider's stream is exhausted
ProviderEnds ==
    /\ pc = "streaming"
    /\ provider.kind = "ok"
    /\ provider.delivered = provider.chunks
    /\ provider' = [provider EXCEPT !.kind = "ended"]
    /\ UNCHANGED <<text, sanitized, pc, events>>
    /\ UNCHANGED <<endpoint, body, rag_queries, llm_calls>>
    /\ UNCHANGED StreamFrame

\* llm_client.py:405-419 and 531-534: after the chunks the analysis streams
\* may add a followup event and a clean_text event, depending on the text
\* the model wrote; the other stream functions add nothing
AfterChunks ==
    /\ pc = "streaming"
    /\ provider.kind = "ended"
    /\ \E followup \in BOOLEAN, clean \in BOOLEAN :
          /\ followup => endpoint = "/api/assessment/analyze-dimension"
          /\ followup => clean
          /\ clean => /\ endpoint \in {"/api/assessment/analyze-dimension",
                                        "/api/results/deep-analysis"}
                      /\ provider.delivered > 0
          /\ events' = events
                \o (IF followup THEN <<FollowupEvent>> ELSE << >>)
                \o (IF clean THEN <<CleanTextEvent>> ELSE << >>)
    /\ pc' = "done_pending"
    /\ UNCHANGED <<text, sanitized>>
    /\ UNCHANGED <<endpoint, body, rag_queries, llm_calls, provider>>
    /\ UNCHANGED StreamFrame

\* the last statement of every generator: yield "data: [DONE]\n\n"
EmitDone ==
    /\ pc = "done_pending"
    /\ events' = Append(events, DoneEvent)
    /\ pc' = "closed"
    /\ UNCHANGED <<text, sanitized>>
    /\ UNCHANGED <<endpoint, body, rag_queries, llm_calls, provider>>
    /\ UNCHANGED StreamFrame

NextStreams ==
    \/ ChatReceive \/ ChatReject \/ ChatRetrieve
    \/ AssistantReceive \/ AssistantReject \/ AssistantRetrieve
    \/ AnalyzeDimension \/ DeepAnalysis \/ StreamSummary
    \/ SafeMessage \/ CallProvider
    \/ ProviderUnavailable \/ ProviderChunk \/ ProviderFails \/ ProviderEnds
    \/ AfterChunks \/ EmitDone

SpecStreams == InitStreams /\ [][NextStreams]_vars

\* The server iterates a response's generator until it is exhausted, and a
\* provider's request returns or raises: a step that can be taken is taken.
SpecStreamsFair == SpecStreams /\ WF_vars(NextStreams)

-----------------------------------------------------------------------------
(* Properties of the streaming endpoints *)

\* at most MAX_MESSAGE_LENGTH characters, none of them a control character
IsSanitized(t) ==
    /\ TextLen(t) <= MAX_MESSAGE_LENGTH
    /\ \A k \in DOMAIN t : ~IsControl(t[k])

\* C24 as stated: on every endpoint that passes a user's text through
\* sanitize_input and then calls the LLM, the text that reaches the LLM is the
\* sanitized one, of at most MAX_MESSAGE_LENGTH characters and without control
\* characters: the last user message of the list /api/chat hands on, the
\* question of /api/assistant, and the follow-up in the prompt of the two
\* analysis endpoints.
C24_SanitizedAtLlmBoundary ==
    \A k \in DOMAIN llm_calls :
        LET call == llm_calls[k]
        IN  /\ endpoint = "/api/chat" =>
                  /\ IsSanitized(LastUserMessage(call.messages))
                  /\ LastUserMessage(call.messages)
                        = sanitize_input(LastUserMessage(body.messages)).text
            /\ endpoint = "/api/assistant" =>
                  /\ IsSanitized(call.messages[1].content)
                  /\ call.messages[1].content = sanitize_input(body.question).text
            /\ (endpoint = "/api/assessment/analyze-dimension"
                    /\ TextTruthy(call.followup)) =>
                  /\ IsSanitized(call.followup)
                  /\ call.followup = sanitize_input(body.followup_context).text
            /\ (endpoint = "/api/results/deep-analysis"
                    /\ TextTruthy(call.followup)) =>
                  /\ IsSanitized(call.followup)
                  /\ call.followup = sanitize_input(body.followup).text

-----------------------------------------------------------------------------
(* Ranges of the scores *)

\* the weights are absent, or those of the scored dimensions are
\* non-negative with a positive total
WeightsInRange ==
    \/ weights = NoWeights
    \/ /\ \A k \in ScoredSet : WeightOf[k] >= 0
       /\ SumOver(WeightOf, ScoredSet) > 0

\* C25 as stated: a non-null dim_score computed from criterion scores 1..5
\* lies in [1.0, 5.0]; and when the weights are absent, or those used are
\* non-negative with a positive total, the overall score lies between the
\* least and the greatest dim_score of the scored dimensions, hence in
\* [1.0, 5.0].
C25_RangeAsStated ==
    /\ DimScored =>
          (dimensions[1].dim_score = None \/ dimensions[1].dim_score \in 100..500)
    /\ (pc = "overall_done" /\ WeightsInRange) =>
          /\ \E k \in ScoredSet : DimScoreOf[k] <= overall_score
          /\ \E k \in ScoredSet : overall_score <= DimScoreOf[k]
          /\ overall_score \in 100..500

\* C25: a non-null dim_score computed from criterion scores 1..5 lies in
\* [1.0, 5.0]; and when at least one dimension is scored and the weights are
\* absent, or those used are non-negative with a positive total, the overall
\* score lies between the least and the greatest dim_score of the scored
\* dimensions, hence in [1.0, 5.0]; when no dimension is scored it is 0.0.
C25_RangePreserved ==
    /\ DimScored =>
          (dimensions[1].dim_score = None \/ dimensions[1].dim_score \in 100..500)
    /\ (pc = "overall_done" /\ WeightsInRange /\ ScoredSet # {}) =>
          /\ \E k \in ScoredSet : DimScoreOf[k] <= overall_score
          /\ \E k \in ScoredSet : overall_score <= DimScoreOf[k]
          /\ overall_score \in 100..500
    /\ (pc = "overall_done" /\ ScoredSet = {}) => overall_score = 0

C25_Witness ==
    /\ pc = "overall_done"
    /\ weights = [k \in {"D1", "D2"} |-> IF k = "D1" THEN 6 ELSE 3]
    /\ Len(dimensions) = 2
    /\ dimensions[1].dimension_id = "D1" /\ dimensions[1].dim_score = 100
    /\ dimensions[2].dimension_id = "D2" /\ dimensions[2].dim_score = 500
    /\ overall_score = 233

\* C26: when every dim_score is >= 1.0 and the threshold comes from the risk
\* table, a gap is critical only under high-risk and only when its dim_score
\* is exactly 1.0; no gap under limited-risk or minimal-risk is critical; and
\* under minimal-risk a gap is significant only when its dim_score is 1.0.
C26_SeverityReachability ==
    ( /\ pc = "gaps_done"
      /\ Truthy(risk_category) /\ risk_category \in DOMAIN risk_thresholds
      /\ \A d \in DOMAIN dimensions :
            dimensions[d].dim_score = None \/ dimensions[d].dim_score >= 100 )
    => \A i \in DOMAIN gaps :
          /\ gaps[i].gap_severity = "critical"
                => (risk_category = "high-risk" /\ gaps[i].dim_score = 100)
          /\ risk_category \in {"limited-risk", "minimal-risk"}
                => gaps[i].gap_severity # "critical"
          /\ (risk_category = "minimal-risk" /\ gaps[i].gap_severity = "significant")
                => gaps[i].dim_score = 100

C26_Witness ==
    /\ pc = "gaps_done"
    /\ risk_category = "minimal-risk"
    /\ Len(dimensions) = 2
    /\ Len(gaps) = 2
    /\ gaps[1].dim_score = 100 /\ gaps[1].gap_severity = "significant"
    /\ gaps[2].dim_score = 150 /\ gaps[2].gap_severity = "moderate"

-----------------------------------------------------------------------------
(* Weight normalisation *)

ScoredIds == {dimensions[k].dimension_id : k \in ScoredSet}

\* every weight multiplied by c
ScaledWeights(w, c) == [id \in DOMAIN w |-> c * w[id]]

\* every scored dimension given the weight v
EqualWeights(v) == [id \in ScoredIds |-> v]

\* the map w with one more entry
WithEntry(w, id, v) == [k \in DOMAIN w \cup {id} |-> IF k = id THEN v ELSE w[k]]

\* C27: for weights that cover every scored dimension, multiplying all
\* weights by the same positive constant (here 3) does not change
\* calculate_overall_score; giving every scored dimension the same positive
\* weight (here 1/6 or 3.0) yields the same result as passing no weights; and
\* entries of the weights map for dimension ids that are not among the scored
\* dimensions have no effect on the result.  The scaled sums are other floats
\* than the unscaled ones, so at a quotient halfway between two hundredths
\* their rounding is independent of that of the call made; the sums with an
\* unused entry are the same floats.
C27_WeightNormalisation ==
    pc = "overall_done" =>
        /\ (weights # NoWeights /\ ScoredIds \subseteq DOMAIN weights) =>
              OverallResults(dimensions, ScaledWeights(weights, 3))
                 = {Return(overall_score)}
        /\ (weights = NoWeights /\ ScoredSet # {}) =>
              \A v \in {1, 18} :
                 OverallResults(dimensions, EqualWeights(v))
                    = {Return(overall_score)}
        /\ weights # NoWeights =>
              \A id \in DimIds \ ScoredIds : \A v \in WeightValues :
                 Return(overall_score)
                    \in OverallResults(dimensions, WithEntry(weights, id, v))

-----------------------------------------------------------------------------
(* Flagged text *)

SafeStream == <<TextEvent("safe"), DoneEvent>>

IsPrefix(a, b) == Len(a) <= Len(b) /\ a = SubSeq(b, 1, Len(a))

\* C28: on /api/chat and /api/assistant, when sanitize_input reports
\* prompt_injection_detected for the (latest) user message, the stream is
\* exactly one fixed safe message followed by [DONE], and neither the RAG
\* retrieval nor an LLM stream function is invoked; on analyze-dimension and
\* deep-analysis a flagged follow-up is treated as absent: the RAG query is
\* the built one and the prompt holds no follow-up.
C28_FlaggedNeverForwarded ==
    /\ (endpoint \in {"/api/chat", "/api/assistant"} /\ Flagged(sanitized)) =>
          /\ rag_queries = << >>
          /\ llm_calls = << >>
          /\ IsPrefix(events, SafeStream)
          /\ pc = "closed" => events = SafeStream
          /\ pc \in {"chat_sanitized", "assistant_sanitized", "safe_stream",
                     "done_pending", "closed"}
    /\ (/\ endpoint \in {"/api/assessment/analyze-dimension",
                         "/api/results/deep-analysis"}
        /\ Flagged(sanitized)) =>
          /\ text = NoneText
          /\ \A k \in DOMAIN rag_queries : rag_queries[k] = BuiltQuery
          /\ \A k \in DOMAIN llm_calls :
                llm_calls[k]
                   = LlmCall(NoneText, <<ChatMessage("user", FixedInstruction)>>)

C28_Witness ==
    /\ endpoint = "/api/chat"
    /\ Flagged(sanitized)
    /\ Len(body.messages) = 2
    /\ pc = "closed"
    /\ events = SafeStream

-----------------------------------------------------------------------------
(* The end of a stream *)

\* the response is a stream whose generator has not finished
StreamOpen == pc \in {"safe_stream", "llm_pending", "streaming", "done_pending"}

DonePositions == {k \in DOMAIN events : events[k] = DoneEvent}

\* [DONE] at most once, and then as the last event of a finished stream
DoneOnceAndLast ==
    /\ Cardinality(DonePositions) <= 1
    /\ DonePositions \subseteq {Len(events)}
    /\ DonePositions # {} <=> pc = "closed"

-----------------------------------------------------------------------------
(* Properties of sanitize_input *)

WarningPositions(w) == {k \in DOMAIN sanitized.warnings : sanitized.warnings[k] = w}

\* the first MAX_MESSAGE_LENGTH characters of the input
FirstCharacters == Take(text, MAX_MESSAGE_LENGTH)

SanitizedAsSpecified ==
    pc = "text_sanitized" =>
        /\ TextLen(sanitized.text) <= MAX_MESSAGE_LENGTH
        /\ sanitized.text = StripControl(FirstCharacters)
        /\ WarningPositions(TRUNCATED_WARNING) # {}
              <=> TextLen(text) > MAX_MESSAGE_LENGTH
        /\ Cardinality(WarningPositions(INJECTION_WARNING)) <= 1
        /\ WarningPositions(INJECTION_WARNING) \subseteq {Len(sanitized.warnings)}
        /\ WarningPositions(INJECTION_WARNING) # {}
              <=> InjectionFound(StripControl(FirstCharacters))
        /\ sanitized = sanitize_input(FirstCharacters)
              \/ TextLen(text) > MAX_MESSAGE_LENGTH
        /\ Flagged(sanitized) <=> Flagged(sanitize_input(FirstCharacters))

\* C30: for every input text the returned text has at most
\* MAX_MESSAGE_LENGTH characters and is the first MAX_MESSAGE_LENGTH
\* characters of the input without their control characters; the truncation
\* warning is present if and only if the input is longer than
\* MAX_MESSAGE_LENGTH; prompt_injection_detected appears at most once and
\* then as the last warning; the patterns are looked for in the truncated
\* text only; and the input is not modified.
C30_LengthLimitAndWarnings ==
    /\ [] SanitizedAsSpecified
    /\ [][text' = text]_vars

C30_Witness ==
    /\ pc = "text_sanitized"
    /\ text = <<Run("x", 1), Run("NUL", 1), Run("y", MAX_MESSAGE_LENGTH)>>
    /\ sanitized = [text |-> <<Run("x", 1), Run("y", MAX_MESSAGE_LENGTH - 2)>>,
                    warnings |-> <<TRUNCATED_WARNING, INJECTION_WARNING>>]

====
